---- MODULE Spec2Model ----
(***************************************************************************)
(* Verification model of the trading bot's execution engine:               *)
(*   - OrderManager.execute_order_with_chasing / _cleanup_partial_fill     *)
(*     (order_manager.py), specification SpecOrder;                        *)
(*   - the position lifecycle of Strategy (take_trade, exit_position,      *)
(*     the tick handler, the periodic task, manual exit and stop_bot),     *)
(*     specification SpecPos;                                              *)
(*   - the per-tick exit evaluation Strategy.evaluate_exit_logic,          *)
(*     specification SpecExit.                                             *)
(* Quantities are in lots, prices in paise (1/100 rupee).                  *)
(***************************************************************************)
EXTENDS Integers, Sequences, FiniteSets, TLC

VARIABLES
    \* ---- OrderManager (order_manager.py) ----
    stack,        \* activations of execute_order_with_chasing, innermost last
    result,       \* what the outermost activation returned, or NoResult
    netQty,       \* the broker's net position in the instrument (signed)
    call,         \* the outermost call: its side and total_qty
    startQty,     \* the broker's net position when the outermost call began
    nOrders,      \* orders placed at the broker since the outermost call began
    \* ---- Strategy: the position lifecycle (strategy.py, bot_service.py) ----
    mode,         \* params["trading_mode"]: "Live" or "Paper"
    running,      \* the bot is started (stop_bot has not cleaned up)
    position,     \* self.position: NoPos, or the open position
    posSeq,       \* take_trade calls made so far
    lockHolder,   \* the task holding position_lock, or "none"
    pc,           \* where each task stands
    ret,          \* for a task inside exit_position: who called it
    loc,          \* the locals of each task: qty, order result, sinks written
    trades_this_minute,
    total_trades, \* performance_stats["total_trades"]
    next_partial_profit_level,
    cooldown,     \* exit_cooldown_until is set and lies in the future
    \* ---- Strategy: the trailing stop of the open position (strategy.py) ----
    p,            \* self.position with its prices: NoTrade, or the open trade
    exit_mode,    \* self.exit_mode: "Normal" or "Sustained Momentum"
    break_even_triggered,
    params,       \* the exit parameters of self.params, fixed for a run
    tick,         \* the last evaluate_exit_logic: what held on its tick, and
                  \* the reason it called exit_position with ("none": no call)
    \* ---- the ticker connection, the periodic task, stop_bot ----
    is_connected,        \* ticker_manager.is_connected
    disconnected_since,  \* self.disconnected_since: None, or the time it was set
    now,                 \* datetime.now(), in seconds since the bot started
    after_cutoff,        \* datetime.now().time() >= 15:15
    ui_pc,               \* where periodic_ui_updater stands
    exit_reason,         \* the reason of the last exit_position call made by
                         \* periodic_ui_updater or stop_bot ("none": no call)
    stop_pc,             \* where the stop_bot request stands
    down_at,             \* history: when the connection was last lost, or None
    \* ---- DataManager: the candles (data_manager.py) ----
    current_candle,      \* self.current_candle, the live index candle
    option_candle,       \* self.option_candles[symbol] of one option symbol
    data_df,             \* the candles on_new_minute appended to self.data_df
    minute,              \* the wall-clock minute
    pending,             \* the new_minute_ltp of an on_new_minute call suspended
                         \* in its await, or NoPrice
    index_ticks,         \* history: the index ticks of each minute, in order
    option_ticks,        \* history: the option's ticks of each minute, in order
    \* ---- DataManager: the trend (data_manager.py, strategy.py) ----
    trend_state,         \* self.trend_state: "NONE", "BULLISH" or "BEARISH"
    trend_candle_count,  \* Strategy.trend_candle_count
    last_row,            \* what the last _update_trend_state found in data_df
    \* ---- functions checked call by call ----
    args,                \* the inputs of the last call, with the function's name
    returned,            \* what that call returned
    \* ---- V47StrategyCoordinator within one index tick ----
    coord,               \* where the tick's entry checks stand, with the
                         \* history of the tick: candidates, take_trade calls
    \* ---- the option's tick pipeline and the validation gauntlet ----
    gt,                  \* clock, prices[symbol], price_history[symbol],
                         \* option_candles[symbol], previous_option_candles[symbol]
                         \* and what the gauntlet last returned
    \* ---- TradeLogger (trade_logger.py) ----
    tl,                  \* db_lock, where each log_trade call stands, and the
                         \* writes attempted so far
    \* ---- one activation of execute_order_with_chasing, with the broker's
    \*      order book ----
    ch,                  \* the activation's locals, its tasks, and what the
                         \* broker did with the orders it placed
    \* ---- Strategy: the day's totals and the entry gates (strategy.py) ----
    day                  \* the position's quantity, the daily P&L totals, the
                         \* counters and flags is_trade_allowed reads, the
                         \* TradeRecords written, and the last handler run

ordVars == <<stack, result, netQty, call, startQty, nOrders>>
posRest == <<mode, running, posSeq, lockHolder, pc, ret, loc,
             trades_this_minute, total_trades, next_partial_profit_level, cooldown>>
posVars == <<position, posRest>>

exitVars == <<p, exit_mode, break_even_triggered, params, tick>>

uiVars == <<is_connected, disconnected_since, now, after_cutoff, ui_pc,
            exit_reason, stop_pc, down_at>>
candleVars == <<current_candle, option_candle, data_df, minute, pending,
                index_ticks, option_ticks>>

trendVars == <<trend_state, trend_candle_count, last_row>>

coreVars == <<ordVars, posVars, exitVars, uiVars, candleVars>>
fnVars == <<args, returned>>
coordVars == <<coord>>
gauntVars == <<gt>>
extVars == <<tl, ch, day>>
auxVars == <<trendVars, fnVars, coordVars, gauntVars, extVars>>

vars == <<coreVars, auxVars>>

--------------------------------------------------------------------------
\* Bounds of the model.

\* Largest quantity of an outermost order.
MaxQty == 3
\* Depth at which the interpreter refuses a further nested call
\* (RecursionError, an Exception, caught in _cleanup_partial_fill).
MaxDepth == 3
\* freeze_limit of every call, at the scale of MaxQty (the callers pass 900
\* or 1000 shares; the quantities here are small multiples of it).
FreezeLimit == 2

\* take_trade calls in one run of the model.
MaxTrades == 2
\* Largest position, in lots.
MaxLots == 2
\* lot_size of the traded option (quantities are in units).
LotSize == 2
\* Option prices of the model: PriceLevels + 1 prices (see Prices).
PriceLevels == 4

\* chase_retries of a call made by take_trade / exit_position (the default).
ChaseRetries == 3
\* chase_retries of the call made by _cleanup_partial_fill.
CleanupChaseRetries == 0
\* trailing_sl_points (default 5.0) and trailing_sl_percent (default 10.0).
\* Prices are integers in tenths of a paisa, so 5.0 rupees is 5000.
SlPoints == 5000
SlPercent == 10
\* partial_exit_pct (default 50).
PartialExitPct == 50

Min(a, b) == IF a <= b THEN a ELSE b
Max(a, b) == IF a >= b THEN a ELSE b
Abs(a) == IF a >= 0 THEN a ELSE -a

--------------------------------------------------------------------------
\* The state after construction (Strategy.__init__ / _reset_state).

\* Two handle_ticks_async coroutines scheduled by on_ticks, and "bg": the
\* caller of exit_position outside the tick handlers (periodic_ui_updater, or
\* an API request through TradingBotService).
Handlers == {"h1", "h2"}
Tasks == Handlers \cup {"bg"}

\* `by` names the dict object self.position refers to, by the task whose
\* take_trade created it; a task's local `p` keeps referring to that object.
NoPos == [open |-> FALSE, qty |-> 0, by |-> "none"]
NoLoc == [qty |-> 0, by |-> "none", ores |-> "NONE", logged |-> 0]
NoTrade == [open |-> FALSE, qty |-> 0, entry_price |-> 0, max_price |-> 0,
            trail_sl |-> 0, break_even_price |-> 0]

\* self.params.get defaults of the exit parameters.
DefaultParams == [break_even_percent |-> 0, trade_profit_target |-> 0]

\* No tick of the held option evaluated yet.
NoTick == [target |-> FALSE, red |-> FALSE, candles |-> FALSE, engulfing |-> FALSE,
           breached |-> FALSE, mode |-> "Normal", reason |-> "none"]

\* _reset_state, and asyncio.Lock() unlocked, with the trading mode `m`.
ResetState(m) ==
    /\ mode = m
    /\ running = TRUE
    /\ position = NoPos
    /\ posSeq = 0
    /\ lockHolder = "none"
    /\ pc = [t \in Tasks |-> "idle"]
    /\ ret = [t \in Tasks |-> "none"]
    /\ loc = [t \in Tasks |-> NoLoc]
    /\ trades_this_minute = 0
    /\ total_trades = 0
    /\ next_partial_profit_level = 1
    /\ cooldown = FALSE
    /\ p = NoTrade
    /\ exit_mode = "Normal"
    /\ break_even_triggered = FALSE
    /\ tick = NoTick

\* None, for a time.
NoTime == -1

\* The service as start_bot leaves it: the ticker connected, the periodic task
\* started by run(), no stop request, disconnected_since as _reset_state set it.
UiIdle ==
    /\ is_connected = TRUE
    /\ disconnected_since = NoTime
    /\ now = 0
    /\ after_cutoff = FALSE
    /\ ui_pc = "sleep"
    /\ exit_reason = "none"
    /\ stop_pc = "idle"
    /\ down_at = NoTime

\* The candle model runs over MaxMinutes minutes, with MaxTicks ticks in all,
\* at prices 1..MaxPrice.
MaxMinutes == 2
MaxTicks == 4
MaxPrice == 3

\* No price.
NoPrice == 0

\* An empty candle dict: "minute" is not one of its keys.
NoCandle == [minute |-> 0, open |-> 0, high |-> 0, low |-> 0, close |-> 0]

\* The DataManager as its constructor leaves it.
CandlesEmpty ==
    /\ current_candle = NoCandle
    /\ option_candle = NoCandle
    /\ data_df = <<>>
    /\ minute = 1
    /\ pending = NoPrice
    /\ index_ticks = [m \in 1..MaxMinutes |-> <<>>]
    /\ option_ticks = [m \in 1..MaxMinutes |-> <<>>]

\* NaN, for an indicator value.
NaN == -1

\* No row looked at yet.
NoRow == [rows |-> 0, has_column |-> FALSE, close |-> 0, supertrend |-> NaN]

\* The trend as the constructors leave it: trend_state None, no candle counted.
TrendIdle ==
    /\ trend_state = "NONE"
    /\ trend_candle_count = 0
    /\ last_row = NoRow

\* No call made yet.
NoArgs == [fn |-> "none"]

FnIdle ==
    /\ args = NoArgs
    /\ returned = "none"

\* No tick is being checked for entries.
CoordIdle ==
    [pc |-> "idle", i |-> 0, is_new_minute |-> FALSE, cands |-> {},
     traded |-> {}, calls |-> 0, layers |-> <<>>, error |-> FALSE]

\* No option tick received yet: empty price history, no option candle.
GauntletIdle ==
    [now |-> 0, ticks |-> 0, price |-> 0, price_history |-> <<>>,
     option_candle |-> [k \in {} |-> 0],
     previous_option_candle |-> [k \in {} |-> 0],
     layer1 |-> FALSE, result |-> "none"]

\* db_lock unlocked, no log_trade call made, nothing written.
LoggerIdle ==
    [lock |-> "none", pc |-> [t \in {"h1", "h2", "bg"} |-> "idle"],
     rec |-> [t \in {"h1", "h2", "bg"} |-> 0],
     kind |-> [t \in {"h1", "h2", "bg"} |-> "none"],
     calls |-> 0, done |-> {}, writes |-> <<>>]

\* No call of execute_order_with_chasing is followed order by order.
ChaseIdle == [pc |-> "none"]

\* The day as _reset_state leaves it (lines 412-421, 352): no position, the
\* totals at zero, no limit hit, not paused; daily_sl and daily_pt are the
\* parameters of the run.
NewDay(daily_sl, daily_pt) ==
    [open |-> FALSE, qty |-> 0, entry_price |-> 0,
     daily_gross_pnl |-> 0, total_charges |-> 0, daily_net_pnl |-> 0,
     winning_trades |-> 0, losing_trades |-> 0,
     daily_trade_limit_hit |-> FALSE, is_paused |-> FALSE,
     trades_this_minute |-> 0, next_partial_profit_level |-> 1,
     records |-> 0, entries |-> 0,
     daily_sl |-> daily_sl, daily_pt |-> daily_pt,
     last |-> [op |-> "none", order |-> "NONE"]]

DayIdle == NewDay(0, 0)

\* The objects of the entry path as their constructors leave them.
AuxIdle ==
    /\ TrendIdle /\ FnIdle /\ coord = CoordIdle /\ gt = GauntletIdle
    /\ tl = LoggerIdle
    /\ ch = ChaseIdle
    /\ day = DayIdle


--------------------------------------------------------------------------
\* OrderManager.execute_order_with_chasing

NoResult == [status |-> "NONE", reason |-> "NONE"]

Sign(side) == IF side = "BUY" THEN 1 ELSE -1

\* The local state of one activation at its first line (lines 142-146).
NewFrame(side, total_qty, chase_retries) ==
    [side |-> side, total_qty |-> total_qty, chase_retries |-> chase_retries,
     filled_quantity |-> 0, qty_remaining |-> total_qty, order_qty |-> 0,
     attempt |-> 0, slice_filled |-> FALSE, next_quote |-> FALSE,
     pc |-> "loop", status |-> "NONE", reason |-> "NONE", cleanup_qty |-> 0]

Top == stack[Len(stack)]
SetTop(f) == [stack EXCEPT ![Len(stack)] = f]
Running == Len(stack) > 0

\* Where an exception raised at a call site of execute_order_with_chasing
\* continues: the inner try of the quote (break out of the chase loop), the
\* gather with return_exceptions=True (swallowed), the try around the
\* verification, and the try around the slice for every other site.
CatchVerifyOutside(site) ==
    CASE site = "quote" -> "fallback"
      [] site = "cancel_joined" -> "next_attempt"
      [] site = "verify" -> "raise_out"
      [] OTHER -> "except"

Catch(site) ==
    CASE site = "quote" -> "fallback"
      [] site = "cancel_joined" -> "next_attempt"
      [] site = "verify" -> "verify_except"
      [] OTHER -> "except"

\* while qty_remaining > 0: order_qty = min(qty_remaining, freeze_limit)
SliceStart ==
    /\ Running /\ Top.pc = "loop"
    /\ stack' = SetTop(
         IF Top.qty_remaining > 0
         THEN [Top EXCEPT !.order_qty = Min(Top.qty_remaining, FreezeLimit),
                          !.slice_filled = FALSE, !.attempt = 0, !.pc = "quote"]
         ELSE [Top EXCEPT !.pc = "verify"])
    /\ UNCHANGED <<result, netQty, call, startQty, nOrders>>
    /\ UNCHANGED <<posVars, exitVars, uiVars, candleVars, auxVars>>

\* for attempt in range(chase_retries + 1): fetch the quote, start the next
\* quote fetch when another attempt can follow.
Quote ==
    /\ Running /\ Top.pc = "quote"
    /\ \E ok \in BOOLEAN :
         stack' = SetTop(
           IF ok
           THEN [Top EXCEPT !.next_quote = (Top.attempt < Top.chase_retries),
                            !.pc = "place"]
           ELSE [Top EXCEPT !.pc = Catch("quote")])
    /\ UNCHANGED <<result, netQty, call, startQty, nOrders>>
    /\ UNCHANGED <<posVars, exitVars, uiVars, candleVars, auxVars>>

\* kite.place_order(... order_type=LIMIT ...)
PlaceLimit ==
    /\ Running /\ Top.pc = "place"
    /\ \E ok \in BOOLEAN :
         IF ok
         THEN /\ stack' = SetTop([Top EXCEPT !.pc = "status"])
              /\ nOrders' = nOrders + 1
         ELSE /\ stack' = SetTop([Top EXCEPT !.pc = Catch("place")])
              /\ UNCHANGED nOrders
    /\ UNCHANGED <<result, netQty, call, startQty>>
    /\ UNCHANGED <<posVars, exitVars, uiVars, candleVars, auxVars>>

\* kite.order_history of the limit order after the timeout.  An order that is
\* still open when the poll raises stays at the broker; what it goes on to
\* fill (late) is accounted for here.
LimitStatus ==
    /\ Running /\ Top.pc = "status"
    /\ \/ /\ stack' = SetTop([Top EXCEPT
                 !.filled_quantity = Top.filled_quantity + Top.order_qty,
                 !.slice_filled = TRUE, !.pc = "fallback"])
          /\ netQty' = netQty + Sign(Top.side) * Top.order_qty
       \/ /\ stack' = SetTop([Top EXCEPT !.pc = "cancel"])
          /\ UNCHANGED netQty
       \/ \E late \in {0, Top.order_qty} :
            /\ stack' = SetTop([Top EXCEPT !.pc = Catch("status")])
            /\ netQty' = netQty + Sign(Top.side) * late
    /\ UNCHANGED <<result, call, startQty, nOrders>>
    /\ UNCHANGED <<posVars, exitVars, uiVars, candleVars, auxVars>>

\* kite.cancel_order of the unfilled limit order.  The order may have filled
\* between the poll and the cancel.  A failing cancel is
\* swallowed by the gather when a next quote fetch was started, and raises
\* from "await cancel_task" on the last attempt.
Cancel ==
    /\ Running /\ Top.pc = "cancel"
    /\ \E ok \in BOOLEAN, fill \in {0, Top.order_qty} :
         LET site == IF Top.next_quote THEN "cancel_joined" ELSE "cancel_alone"
             to == IF ok THEN "next_attempt" ELSE Catch(site)
         IN /\ stack' = SetTop(
                 IF to = "next_attempt"
                 THEN [Top EXCEPT !.attempt = Top.attempt + 1,
                         !.pc = IF Top.attempt + 1 <= Top.chase_retries
                                THEN "quote" ELSE "fallback"]
                 ELSE [Top EXCEPT !.pc = to])
            /\ netQty' = netQty + Sign(Top.side) * fill
    /\ UNCHANGED <<result, call, startQty, nOrders>>
    /\ UNCHANGED <<posVars, exitVars, uiVars, candleVars, auxVars>>

\* if not slice_filled and fallback_to_market: place the market order.
MarketFallback ==
    /\ Running /\ Top.pc = "fallback"
    /\ IF Top.slice_filled
       THEN /\ stack' = SetTop([Top EXCEPT !.pc = "slice_end"])
            /\ UNCHANGED nOrders
       ELSE \E ok \in BOOLEAN :
              IF ok
              THEN /\ stack' = SetTop([Top EXCEPT !.pc = "market_status"])
                   /\ nOrders' = nOrders + 1
              ELSE /\ stack' = SetTop([Top EXCEPT !.pc = Catch("market")])
                   /\ UNCHANGED nOrders
    /\ UNCHANGED <<result, netQty, call, startQty>>
    /\ UNCHANGED <<posVars, exitVars, uiVars, candleVars, auxVars>>

\* kite.order_history of the market order after 0.2 s; a status other than
\* COMPLETE leaves slice_filled false and raises "Failed to fill order slice".
MarketStatus ==
    /\ Running /\ Top.pc = "market_status"
    /\ \/ /\ stack' = SetTop([Top EXCEPT
                 !.filled_quantity = Top.filled_quantity + Top.order_qty,
                 !.slice_filled = TRUE, !.pc = "slice_end"])
          /\ netQty' = netQty + Sign(Top.side) * Top.order_qty
       \/ \E late \in {0, Top.order_qty} :
            /\ stack' = SetTop([Top EXCEPT !.pc = Catch("nofill")])
            /\ netQty' = netQty + Sign(Top.side) * late
       \/ \E late \in {0, Top.order_qty} :
            /\ stack' = SetTop([Top EXCEPT !.pc = Catch("market_status")])
            /\ netQty' = netQty + Sign(Top.side) * late
    /\ UNCHANGED <<result, call, startQty, nOrders>>
    /\ UNCHANGED <<posVars, exitVars, uiVars, candleVars, auxVars>>

\* qty_remaining -= order_qty
SliceEnd ==
    /\ Running /\ Top.pc = "slice_end"
    /\ stack' = SetTop([Top EXCEPT !.qty_remaining = Top.qty_remaining - Top.order_qty,
                                   !.pc = "loop"])
    /\ UNCHANGED <<result, netQty, call, startQty, nOrders>>
    /\ UNCHANGED <<posVars, exitVars, uiVars, candleVars, auxVars>>

\* _cleanup_partial_fill(filled_qty) called by an activation that goes on to
\* return FAILED with `reason`: nothing when filled_qty = 0, else a nested
\* execute_order_with_chasing(SELL, filled_qty, chase_retries=0) inside a
\* try/except that catches whatever it raises.
CleanupPartialFill(frame, filled_qty, reason) ==
    LET failed == [NewFrame(frame.side, frame.total_qty, frame.chase_retries)
                     EXCEPT !.pc = "return", !.status = "FAILED",
                            !.reason = reason, !.cleanup_qty = filled_qty,
                            !.filled_quantity = frame.filled_quantity,
                            !.qty_remaining = frame.qty_remaining]
    IN IF filled_qty > 0 /\ Len(stack) < MaxDepth
       THEN Append(SetTop(failed), NewFrame("SELL", filled_qty, CleanupChaseRetries))
       ELSE SetTop(failed)

\* except Exception as e: cleanup of filled_quantity, return FAILED (API_ERROR)
Except ==
    /\ Running /\ Top.pc = "except"
    /\ stack' = CleanupPartialFill(Top, Top.filled_quantity, "API_ERROR")
    /\ UNCHANGED <<result, netQty, call, startQty, nOrders>>
    /\ UNCHANGED <<posVars, exitVars, uiVars, candleVars, auxVars>>

\* Verify final position: kite.positions() and the comparison of lines 286-300.
Verify ==
    /\ Running /\ Top.pc = "verify"
    /\ \E ok \in BOOLEAN :
         IF ok
         THEN LET final_filled_qty == Abs(netQty)
              IN IF final_filled_qty = Top.total_qty \/ Top.side = "SELL"
                 THEN stack' = SetTop([Top EXCEPT !.pc = "return",
                                         !.status = "COMPLETE", !.reason = "SUCCESS"])
                 ELSE stack' = CleanupPartialFill(Top, final_filled_qty,
                                                  "VERIFICATION_FAILED")
         ELSE stack' = SetTop([Top EXCEPT !.pc = Catch("verify")])
    /\ UNCHANGED <<result, netQty, call, startQty, nOrders>>
    /\ UNCHANGED <<posVars, exitVars, uiVars, candleVars, auxVars>>

\* except Exception as e (verification): cleanup of filled_quantity, FAILED.
VerifyExcept ==
    /\ Running /\ Top.pc = "verify_except"
    /\ stack' = CleanupPartialFill(Top, Top.filled_quantity, "VERIFICATION_ERROR")
    /\ UNCHANGED <<result, netQty, call, startQty, nOrders>>
    /\ UNCHANGED <<posVars, exitVars, uiVars, candleVars, auxVars>>

\* The activation ends: by a return statement, or by an exception that no
\* handler of the activation caught.  A nested activation ends inside the
\* try of _cleanup_partial_fill, whose caller then returns its own FAILED.
Return ==
    /\ Running /\ Top.pc \in {"return", "raise_out"}
    /\ stack' = SubSeq(stack, 1, Len(stack) - 1)
    /\ result' = IF Len(stack) > 1 THEN result
                 ELSE IF Top.pc = "raise_out"
                      THEN [status |-> "RAISED", reason |-> "EXCEPTION"]
                      ELSE [status |-> Top.status, reason |-> Top.reason]
    /\ UNCHANGED <<netQty, call, startQty, nOrders>>
    /\ UNCHANGED <<posVars, exitVars, uiVars, candleVars, auxVars>>

\* The calls the Strategy makes: BUY from flat (take_trade), SELL of a held
\* quantity (exit_position, partial_exit_position).
InitOrder ==
    /\ \E side \in {"BUY", "SELL"}, qty \in 1..MaxQty :
         /\ stack = <<NewFrame(side, qty, ChaseRetries)>>
         /\ call = [side |-> side, total_qty |-> qty]
         /\ startQty \in (IF side = "BUY" THEN {0} ELSE qty..MaxQty)
    /\ netQty = startQty
    /\ result = NoResult
    /\ nOrders = 0
    /\ ResetState("Live")
    /\ params = DefaultParams
    /\ UiIdle
    /\ CandlesEmpty
    /\ AuxIdle

NextOrder ==
    \/ SliceStart \/ Quote \/ PlaceLimit \/ LimitStatus \/ Cancel
    \/ MarketFallback \/ MarketStatus \/ SliceEnd \/ Except
    \/ Verify \/ VerifyExcept \/ Return

SpecOrder == InitOrder /\ [][NextOrder]_vars

--------------------------------------------------------------------------
\* Claims about execute_order_with_chasing, checked under SpecOrder.

\* C6: the compensating cleanup does not recurse without bound:
\* a cleanup issued by a cleanup is for a strictly smaller quantity than the
\* cleanup that issued it, so the nesting is bounded by the order's quantity
\* (and not only by the interpreter's recursion limit).
C6_CleanupRecursionBounded ==
    \A i \in 2..(Len(stack) - 1) : stack[i + 1].total_qty < stack[i].total_qty

\* C7: COMPLETE is returned only if the broker's net position
\* is the one expected from the order: the starting position plus total_qty
\* after a BUY, minus total_qty after a SELL.
C7_CompleteOnlyIfVerified ==
    result.status = "COMPLETE" =>
        netQty = startQty + Sign(call.side) * call.total_qty

\* C8: a compensating order is on the side opposite to the
\* failed transaction and for the quantity handed to the cleanup.
C8_CleanupOppositeSide ==
    \A i \in 2..Len(stack) :
        /\ stack[i].side # stack[i - 1].side
        /\ stack[i].total_qty = stack[i - 1].cleanup_qty

--------------------------------------------------------------------------
\* Strategy: the position lifecycle.  Each coroutine is cut at its awaits:
\* a step runs from one suspension point to the next.

\* No order manager call is being modelled step by step.
OrderIdle ==
    /\ stack = <<>>
    /\ result = NoResult
    /\ netQty = 0
    /\ call = [side |-> "NONE", total_qty |-> 0]
    /\ startQty = 0
    /\ nOrders = 0

\* What execute_order_with_chasing hands back to its caller, and "EXC" for an
\* exception raised inside the caller's try block.
OrderOutcomes == {"COMPLETE", "FAILED", "EXC"}

\* partial_exit_position, line 1310: qty_to_exit, the percentage of the lots
\* held, rounded up to whole lots, and at most the quantity held.
QtyToExit(qty) ==
    LET lots == (qty * PartialExitPct + LotSize * 100 - 1) \div (LotSize * 100)
    IN  Min(lots * LotSize, qty)

\* No final exit, whatever would remain.
NeverFinalExit(qty) == FALSE

\* partial_exit_position, line 1312: less than a lot would remain, so the
\* position is closed in full.
FinalExit(qty) == qty - QtyToExit(qty) < LotSize

Goto(t, to) == pc' = [pc EXCEPT ![t] = to]

\* handle_ticks_async on an index tick: a new minute resets trades_this_minute;
\* with no position the coordinator runs and, on a validated signal, calls
\* take_trade.
TickIndex(t) ==
    /\ running /\ t \in Handlers /\ pc[t] = "idle"
    /\ \E is_new_minute \in BOOLEAN, signal \in BOOLEAN :
         /\ trades_this_minute' = IF is_new_minute THEN 0 ELSE trades_this_minute
         /\ IF ~position.open /\ signal /\ posSeq < MaxTrades
            THEN Goto(t, "tt_lock") /\ posSeq' = posSeq + 1
            ELSE UNCHANGED <<pc, posSeq>>
         /\ is_new_minute \/ (~position.open /\ signal /\ posSeq < MaxTrades)
    /\ UNCHANGED <<mode, running, position, lockHolder, ret, loc,
                   total_trades, next_partial_profit_level, cooldown>>
    /\ UNCHANGED <<ordVars, exitVars, uiVars, candleVars, auxVars>>

\* take_trade, lines 1056-1057: the position check under the lock, which is
\* released as soon as the check is made.
TakeTradeCheck(t) ==
    /\ pc[t] = "tt_lock" /\ lockHolder = "none"
    /\ Goto(t, IF position.open THEN "idle" ELSE "tt_confirm")
    /\ UNCHANGED <<mode, running, position, posSeq, lockHolder, ret, loc,
                   trades_this_minute, total_trades, next_partial_profit_level, cooldown>>
    /\ UNCHANGED <<ordVars, exitVars, uiVars, candleVars, auxVars>>

\* take_trade, lines 1059-1094: ATM confirmation and sizing (either may abort),
\* then the entry order in live trading, or the simulated buy in paper trading.
TakeTradeSize(t) ==
    /\ pc[t] = "tt_confirm"
    /\ \E ok \in BOOLEAN :
         Goto(t, IF ~ok THEN "idle" ELSE IF mode = "Live" THEN "tt_wait" ELSE "tt_assign")
    /\ UNCHANGED <<mode, running, position, posSeq, lockHolder, ret, loc,
                   trades_this_minute, total_trades, next_partial_profit_level, cooldown>>
    /\ UNCHANGED <<ordVars, exitVars, uiVars, candleVars, auxVars>>

\* What take_trade does with the outcome of its entry order (lines 1087-1092
\* and the except of lines 1111-1113).
EntryAfterOrderAlways(outcome) == "tt_assign"

EntryAfterOrder(outcome) == IF outcome = "COMPLETE" THEN "tt_assign" ELSE "tt_failed"

\* take_trade, lines 1078-1092: the entry order returns.
TakeTradeOrderDone(t) ==
    /\ pc[t] = "tt_wait"
    /\ \E outcome \in OrderOutcomes :
         /\ loc' = [loc EXCEPT ![t].ores = outcome]
         /\ Goto(t, EntryAfterOrder(outcome))
    /\ UNCHANGED <<mode, running, position, posSeq, lockHolder, ret,
                   trades_this_minute, total_trades, next_partial_profit_level, cooldown>>
    /\ UNCHANGED <<ordVars, exitVars, uiVars, candleVars, auxVars>>

\* take_trade, lines 1091-1092 and 1111-1113: the failure is reported (an
\* awaited log line) and take_trade returns.
TakeTradeFailed(t) ==
    /\ pc[t] = "tt_failed"
    /\ loc' = [loc EXCEPT ![t] = NoLoc]
    /\ Goto(t, "idle")
    /\ UNCHANGED <<mode, running, position, posSeq, lockHolder, ret,
                   trades_this_minute, total_trades, next_partial_profit_level, cooldown>>
    /\ UNCHANGED <<ordVars, exitVars, uiVars, candleVars, auxVars>>

\* take_trade, lines 1096-1099: self.position is assigned.
TakeTradeAssign(t) ==
    /\ pc[t] = "tt_assign"
    /\ \E qty \in 1..MaxLots :
         position' = [open |-> TRUE, qty |-> qty * LotSize, by |-> t]
    /\ loc' = [loc EXCEPT ![t] = NoLoc]
    /\ Goto(t, "tt_count")
    /\ UNCHANGED <<mode, running, posSeq, lockHolder, ret,
                   trades_this_minute, total_trades, next_partial_profit_level, cooldown>>
    /\ UNCHANGED <<ordVars, exitVars, uiVars, candleVars, auxVars>>

\* take_trade, lines 1105-1109: the trade counters.
TakeTradeCount(t) ==
    /\ pc[t] = "tt_count"
    /\ trades_this_minute' = trades_this_minute + 1
    /\ total_trades' = total_trades + 1
    /\ next_partial_profit_level' = 1
    /\ Goto(t, "idle")
    /\ UNCHANGED <<mode, running, position, posSeq, lockHolder, ret, loc, cooldown>>
    /\ UNCHANGED <<ordVars, exitVars, uiVars, candleVars, auxVars>>

\* exit_position returns to its caller: check_partial_profit_take and
\* evaluate_exit_logic leave their "async with position_lock"; stop_bot goes on
\* to _cleanup_bot_state; the periodic task and manual_exit_trade hold no lock.
ExitReturns(t) ==
    /\ pc' = [pc EXCEPT ![t] = CASE ret[t] = "cp" -> "ev_lock"
                                 [] ret[t] = "stop" -> "stop_cleanup"
                                 [] OTHER -> "idle"]
    /\ lockHolder' = IF ret[t] \in {"cp", "ev"} THEN "none" ELSE lockHolder
    /\ ret' = [ret EXCEPT ![t] = "none"]
    /\ loc' = [loc EXCEPT ![t] = NoLoc]

\* handle_ticks_async on a tick of the held option (lines 1411-1413):
\* check_partial_profit_take, then evaluate_exit_logic.
TickOption(t) ==
    /\ running /\ t \in Handlers /\ pc[t] = "idle"
    /\ position.open
    /\ Goto(t, "cp_lock")
    /\ UNCHANGED <<mode, running, position, posSeq, lockHolder, ret, loc,
                   trades_this_minute, total_trades, next_partial_profit_level, cooldown>>
    /\ UNCHANGED <<ordVars, exitVars, uiVars, candleVars, auxVars>>

\* check_partial_profit_take and the head of partial_exit_position (lines
\* 1349-1333): under the lock; when the profit level is reached either a
\* partial order, or the full close when less than a lot would remain.
CheckPartial(t) ==
    /\ pc[t] = "cp_lock" /\ lockHolder = "none"
    /\ IF ~position.open
       THEN Goto(t, "ev_lock") /\ UNCHANGED <<lockHolder, ret, loc>>
       ELSE \E level_hit \in BOOLEAN :
                 IF ~level_hit
                 THEN Goto(t, "ev_lock") /\ UNCHANGED <<lockHolder, ret, loc>>
                 ELSE /\ lockHolder' = t
                      /\ IF FinalExit(position.qty)
                         THEN /\ Goto(t, "x_start")
                              /\ ret' = [ret EXCEPT ![t] = "cp"]
                              /\ UNCHANGED loc
                         ELSE /\ Goto(t, IF mode = "Live" THEN "pe_wait" ELSE "pe_apply")
                              /\ loc' = [loc EXCEPT ![t] =
                                    [NoLoc EXCEPT !.qty = QtyToExit(position.qty),
                                                  !.by = position.by]]
                              /\ UNCHANGED ret
    /\ UNCHANGED <<mode, running, position, posSeq,
                   trades_this_minute, total_trades, next_partial_profit_level, cooldown>>
    /\ UNCHANGED <<ordVars, exitVars, uiVars, candleVars, auxVars>>

\* partial_exit_position, lines 1322-1333: the partial order returns; anything
\* but COMPLETE leaves the position as it is.
PartialOrderDone(t) ==
    /\ pc[t] = "pe_wait"
    /\ \E outcome \in OrderOutcomes :
         IF outcome = "COMPLETE"
         THEN Goto(t, "pe_apply") /\ UNCHANGED <<lockHolder, loc>>
         ELSE /\ Goto(t, "ev_lock") /\ lockHolder' = "none"
              /\ loc' = [loc EXCEPT ![t] = NoLoc]
    /\ UNCHANGED <<mode, running, position, posSeq, ret,
                   trades_this_minute, total_trades, next_partial_profit_level, cooldown>>
    /\ UNCHANGED <<ordVars, exitVars, uiVars, candleVars, auxVars>>

\* partial_exit_position, lines 1334-1345: the record is logged, the quantity
\* of the dict the call started with is reduced (p["qty"] -= qty_to_exit) and
\* the level advanced; the lock is released on return.
PartialApply(t) ==
    /\ pc[t] = "pe_apply"
    /\ position' = IF position.open /\ position.by = loc[t].by
                   THEN [position EXCEPT !.qty = position.qty - loc[t].qty]
                   ELSE position
    /\ next_partial_profit_level' = next_partial_profit_level + 1
    /\ lockHolder' = "none"
    /\ loc' = [loc EXCEPT ![t] = NoLoc]
    /\ Goto(t, "ev_lock")
    /\ UNCHANGED <<mode, running, posSeq, ret,
                   trades_this_minute, total_trades, cooldown>>
    /\ UNCHANGED <<ordVars, exitVars, uiVars, candleVars, auxVars>>

\* evaluate_exit_logic (lines 1175-1300) as far as the lifecycle goes: under
\* the lock, an exit trigger calls exit_position.
EvalExit(t) ==
    /\ pc[t] = "ev_lock" /\ lockHolder = "none"
    /\ \E trigger \in BOOLEAN :
         IF position.open /\ trigger
         THEN /\ lockHolder' = t
              /\ Goto(t, "x_start")
              /\ ret' = [ret EXCEPT ![t] = "ev"]
         ELSE Goto(t, "idle") /\ UNCHANGED <<lockHolder, ret>>
    /\ UNCHANGED <<mode, running, position, posSeq, loc,
                   trades_this_minute, total_trades, next_partial_profit_level, cooldown>>
    /\ UNCHANGED <<ordVars, exitVars, uiVars, candleVars, auxVars>>

\* exit_position, lines 1117-1133: nothing without a position, else the exit
\* order in live trading.
ExitStart(t) ==
    /\ pc[t] = "x_start"
    /\ IF ~position.open
       THEN ExitReturns(t)
       ELSE /\ Goto(t, IF mode = "Live" THEN "x_wait" ELSE "x_log")
            /\ UNCHANGED <<lockHolder, ret, loc>>
    /\ UNCHANGED <<mode, running, position, posSeq,
                   trades_this_minute, total_trades, next_partial_profit_level, cooldown>>
    /\ UNCHANGED <<ordVars, exitVars, uiVars, candleVars, auxVars>>

\* What exit_position does with the outcome of its exit order (lines
\* 1135-1140): a FAILED order is logged and the exit goes on; only an
\* exception reaches the except of line 1162.
ExitAfterOrder(outcome) == IF outcome = "EXC" THEN "return" ELSE "x_log"

\* exit_position, lines 1126-1140: the exit order returns.
ExitOrderDone(t) ==
    /\ pc[t] = "x_wait"
    /\ \E outcome \in OrderOutcomes :
         IF ExitAfterOrder(outcome) = "return"
         THEN ExitReturns(t)
         ELSE /\ loc' = [loc EXCEPT ![t].ores = outcome]
              /\ Goto(t, ExitAfterOrder(outcome))
              /\ UNCHANGED <<lockHolder, ret>>
    /\ UNCHANGED <<mode, running, position, posSeq,
                   trades_this_minute, total_trades, next_partial_profit_level, cooldown>>
    /\ UNCHANGED <<ordVars, exitVars, uiVars, candleVars, auxVars>>

\* exit_position, lines 1143-1158 with TradeLogger.log_trade: a record with
\* invalid numeric data is not offered at all (lines 1149-1153); a valid one
\* is offered to the two sinks, and a sink that raises is reported and
\* skipped, so 0, 1 or 2 sinks hold the record when log_trade returns.
ExitLog(t) ==
    /\ pc[t] = "x_log"
    /\ \E valid \in BOOLEAN, sinks \in 0..2 :
         loc' = [loc EXCEPT ![t].logged = IF valid THEN sinks ELSE 0]
    /\ Goto(t, "x_clear")
    /\ UNCHANGED <<mode, running, position, posSeq, lockHolder, ret,
                   trades_this_minute, total_trades, next_partial_profit_level, cooldown>>
    /\ UNCHANGED <<ordVars, exitVars, uiVars, candleVars, auxVars>>

\* exit_position, line 1159 (line 1152 for an invalid record):
\* self.position = None.
ExitClear(t) ==
    /\ pc[t] = "x_clear"
    /\ position' = NoPos
    /\ cooldown' = TRUE
    /\ ExitReturns(t)
    /\ UNCHANGED <<mode, running, posSeq,
                   trades_this_minute, total_trades, next_partial_profit_level>>
    /\ UNCHANGED <<ordVars, exitVars, uiVars, candleVars, auxVars>>

\* periodic_ui_updater, lines 1032-1045: the failsafe exit after 15 s without
\* the ticker, the end-of-day exit when connected; neither takes the lock.
UiExit ==
    /\ running /\ pc["bg"] = "idle" /\ position.open
    /\ Goto("bg", "x_start")
    /\ ret' = [ret EXCEPT !["bg"] = "ui"]
    /\ UNCHANGED <<mode, running, position, posSeq, lockHolder, loc,
                   trades_this_minute, total_trades, next_partial_profit_level, cooldown>>
    /\ UNCHANGED <<ordVars, exitVars, uiVars, candleVars, auxVars>>

\* TradingBotService.manual_exit_trade: exit_position without the lock.
ManualExit ==
    /\ running /\ pc["bg"] = "idle" /\ position.open
    /\ Goto("bg", "x_start")
    /\ ret' = [ret EXCEPT !["bg"] = "user"]
    /\ UNCHANGED <<mode, running, position, posSeq, lockHolder, loc,
                   trades_this_minute, total_trades, next_partial_profit_level, cooldown>>
    /\ UNCHANGED <<ordVars, exitVars, uiVars, candleVars, auxVars>>

\* TradingBotService.stop_bot, lines 65-72, once past its check that the
\* ticker is connected (a refused call changes nothing): exits an open
\* position without the lock, then cleans up.
StopBot ==
    /\ running /\ pc["bg"] = "idle"
    /\ IF position.open
       THEN Goto("bg", "x_start") /\ ret' = [ret EXCEPT !["bg"] = "stop"]
       ELSE Goto("bg", "stop_cleanup") /\ UNCHANGED ret
    /\ UNCHANGED <<mode, running, position, posSeq, lockHolder, loc,
                   trades_this_minute, total_trades, next_partial_profit_level, cooldown>>
    /\ UNCHANGED <<ordVars, exitVars, uiVars, candleVars, auxVars>>

\* TradingBotService._cleanup_bot_state: the ticker is stopped and the
\* periodic task cancelled.
StopCleanup ==
    /\ pc["bg"] = "stop_cleanup"
    /\ running' = FALSE
    /\ Goto("bg", "idle")
    /\ UNCHANGED <<mode, position, posSeq, lockHolder, ret, loc,
                   trades_this_minute, total_trades, next_partial_profit_level,
                   cooldown>>
    /\ UNCHANGED <<ordVars, exitVars, uiVars, candleVars, auxVars>>

\* Time passes: the 5 seconds of exit_cooldown_until are over.
CooldownExpires ==
    /\ cooldown
    /\ cooldown' = FALSE
    /\ UNCHANGED <<mode, running, position, posSeq, lockHolder, pc, ret, loc,
                   trades_this_minute, total_trades, next_partial_profit_level>>
    /\ UNCHANGED <<ordVars, exitVars, uiVars, candleVars, auxVars>>

InitPos ==
    /\ OrderIdle
    /\ \E m \in {"Live", "Paper"} : ResetState(m)
    /\ params = DefaultParams
    /\ UiIdle
    /\ CandlesEmpty
    /\ AuxIdle

NextPos ==
    \/ \E t \in Handlers : TickIndex(t)
    \/ \E t \in Handlers : TakeTradeCheck(t)
    \/ \E t \in Handlers : TakeTradeSize(t)
    \/ \E t \in Handlers : TakeTradeOrderDone(t)
    \/ \E t \in Handlers : TakeTradeFailed(t)
    \/ \E t \in Handlers : TakeTradeAssign(t)
    \/ \E t \in Handlers : TakeTradeCount(t)
    \/ \E t \in Handlers : TickOption(t)
    \/ \E t \in Handlers : CheckPartial(t)
    \/ \E t \in Handlers : PartialOrderDone(t)
    \/ \E t \in Handlers : PartialApply(t)
    \/ \E t \in Handlers : EvalExit(t)
    \/ \E t \in Tasks : ExitStart(t)
    \/ \E t \in Tasks : ExitOrderDone(t)
    \/ \E t \in Tasks : ExitLog(t)
    \/ \E t \in Tasks : ExitClear(t)
    \/ UiExit \/ ManualExit \/ StopBot \/ StopCleanup \/ CooldownExpires

SpecPos == InitPos /\ [][NextPos]_vars

--------------------------------------------------------------------------
\* Claims about the position lifecycle, checked under SpecPos.

\* A take_trade that has passed its position check and has not yet assigned
\* self.position.
InFlight(t) == pc[t] \in {"tt_confirm", "tt_wait", "tt_assign"}

\* C1: under any interleaving of concurrent take_trade coroutines there is
\* never more than one Position, and a second take_trade that starts while a
\* first is in flight is rejected without placing a broker order: while one
\* handler is in flight no other handler has an entry order at the broker or
\* is about to assign, and no handler assigns over an open position.
C1_SecondEntryRejected ==
    /\ \A t, u \in Handlers :
         (t # u /\ InFlight(t)) => pc[u] \notin {"tt_wait", "tt_assign"}
    /\ \A t \in Handlers : pc[t] = "tt_assign" => ~position.open

\* The steps of a position transition sequence: entry from the check to the
\* counters, partial exit, and exit_position whoever calls it.
TransitionPcs == {"tt_confirm", "tt_wait", "tt_failed", "tt_assign", "tt_count",
                  "pe_wait", "pe_apply", "x_start", "x_wait", "x_log", "x_clear"}

\* C2: every position transition sequence (entry, per-tick exit evaluation,
\* partial exit, and the failsafe, end-of-day, manual and shutdown exits)
\* runs with position_lock held for its whole duration: a task inside a
\* transition sequence is the holder of the lock.
C2_TransitionsHoldLock ==
    \A t \in Tasks : pc[t] \in TransitionPcs => lockHolder = t

\* C3: in live trading exit_position clears the position only after its exit
\* order returned COMPLETE; after a failed exit order the position stays open.
C3_ClearedOnlyAfterComplete ==
    [][(mode = "Live" /\ position.open /\ ~position'.open)
          => \E t \in Tasks : /\ pc[t] = "x_clear" /\ pc'[t] # "x_clear"
                               /\ loc[t].ores = "COMPLETE"]_vars

\* C4: exit_position clears the position only after the trade record was
\* written by the TradeLogger; where the record is not written (a sink
\* raises, the record is invalid) the position is not cleared.
C4_ClearedOnlyAfterLogged ==
    [][(position.open /\ ~position'.open)
          => \E t \in Tasks : /\ pc[t] = "x_clear" /\ pc'[t] # "x_clear"
                               /\ loc[t].logged >= 1]_vars

C14_NoEntryDuringCooldown ==
    [][\A t \in Handlers : (pc[t] = "idle" /\ pc'[t] = "tt_lock") => ~cooldown]_vars

\* C15: a successful partial exit reduces the position's quantity by the
\* exited quantity and advances next_partial_profit_level by exactly one, a
\* full close is made instead when less than a lot would remain, and so an
\* open position always holds a positive whole number of lots.
C15_PartialExitKeepsWholeLots ==
    [][/\ position'.open =>
            (position'.qty >= LotSize /\ position'.qty % LotSize = 0)
       /\ \A t \in Handlers :
            (pc[t] = "pe_apply" /\ pc'[t] # "pe_apply") =>
               /\ next_partial_profit_level' = next_partial_profit_level + 1
               /\ (position.open /\ position.by = loc[t].by) =>
                     /\ position'.open
                     /\ position'.qty = position.qty - loc[t].qty
                     /\ loc[t].qty >= LotSize
       /\ \A t \in Handlers :
            (pc[t] = "cp_lock" /\ pc'[t] \in {"pe_wait", "pe_apply"}) =>
               position.qty - QtyToExit(position.qty) >= LotSize]_vars

\* A position of one lot left open by a partial exit, at the second level.
C15_Witness ==
    /\ position.open /\ position.qty = LotSize
    /\ next_partial_profit_level = 2
    /\ \E t \in Handlers : pc[t] = "ev_lock"

--------------------------------------------------------------------------
\* Strategy.evaluate_exit_logic: the trailing stop

\* Option prices, in tenths of a paisa: multiples of the 0.05 tick, on both
\* sides of the price (50 rupees) where the points stop and the percent stop
\* cross.
Prices == {44950 + 1700 * i : i \in 0..PriceLevels}

\* round(x, 2) of a non-negative price: to a whole paisa. A float that prints
\* as a tie lies on one side or the other of it; `up` is that side.
Round2(x, up) ==
    LET q == x \div 10
        r == x % 10
    IN  IF r > 5 \/ (r = 5 /\ up) THEN (q + 1) * 10 ELSE q * 10

\* RiskManager.calculate_trade_details, line 56: initial_sl_price.
InitialSl(price) ==
    Min(price - SlPoints, (price * (100 - SlPercent)) \div 100)

\* evaluate_exit_logic, line 1276: calculated_sl.
CalculatedSl(max_price) ==
    Max(max_price - SlPoints, (max_price * (100 - SlPercent)) \div 100)

\* A calculated stop left as it is.
BreakEvenFloorNone(calculated_sl, trade, be) == calculated_sl

\* evaluate_exit_logic, lines 1279-1280: once break-even has triggered the
\* calculated stop is not below the break-even price.
BreakEvenFloor(calculated_sl, trade, be) ==
    IF be THEN Max(calculated_sl, trade.break_even_price) ELSE calculated_sl

\* A stop that follows the last price both ways.
TrailFollowsPrice(trade, ltp, be, up) ==
    [trade EXCEPT !.max_price = ltp, !.trail_sl = Round2(CalculatedSl(ltp), up)]

\* evaluate_exit_logic, lines 1270-1282 (Normal mode): max_price follows the
\* price up, and trail_sl is the larger of itself and the calculated stop,
\* which is not below the break-even price once break-even has triggered.
NormalTrail(trade, ltp, be, up) ==
    LET mp == Max(trade.max_price, ltp)
        calculated_sl == BreakEvenFloor(CalculatedSl(mp), trade, be)
    IN  [trade EXCEPT !.max_price = mp,
                      !.trail_sl = Round2(Max(trade.trail_sl, calculated_sl), up)]

\* take_trade, lines 1089 and 1096: in paper trading the entry price is the
\* last price; in live trading it is order_result['avg_price'], the broker's
\* average over the fills, here the last price or the mean of it and the
\* next tick (fills at two neighbouring prices), which is not a whole paisa.
FillPrices(m, price) == IF m = "Live" THEN {price, price + 25} ELSE {price}

\* take_trade, lines 1096-1099, with the stop of calculate_trade_details.
Enter ==
    /\ ~p.open
    /\ \E price \in Prices, qty \in 1..MaxLots, up \in BOOLEAN :
         \E fill \in FillPrices(mode, price) :
           p' = [open |-> TRUE, qty |-> qty, entry_price |-> fill,
                 max_price |-> fill, trail_sl |-> Round2(InitialSl(price), up),
                 break_even_price |-> 0]
    /\ break_even_triggered' = FALSE
    /\ tick' = NoTick
    /\ UNCHANGED <<exit_mode, params>>
    /\ UNCHANGED <<ordVars, posVars, uiVars, candleVars, auxVars>>

\* exit_position called from evaluate_exit_logic: the position is cleared,
\* unless exit_position raised before clearing it.
Exited(trade, closed) == IF closed THEN NoTrade ELSE trade

\* The profit target tested after the red candle and the trailing stop.
ExitReasonTargetLast(target_hit, red, have_candles, mode_now, sl_hit, engulfing) ==
    IF red THEN "red"
    ELSE IF sl_hit THEN "sl"
    ELSE IF target_hit THEN "target"
    ELSE IF engulfing THEN "engulfing"
    ELSE "none"

\* The order of the exit triggers in evaluate_exit_logic (lines 1180-1300):
\* the reason exit_position is called with on a tick, "none" for no call.
\* `sl_hit` is the check of line 1287 against the stop of Normal mode.
ExitReason(target_hit, red, have_candles, mode_now, sl_hit, engulfing) ==
    IF target_hit THEN "target"
    ELSE IF red THEN "red"
    ELSE IF ~have_candles THEN "none"
    ELSE IF mode_now = "Sustained Momentum" THEN "none"
    ELSE IF sl_hit THEN "sl"
    ELSE IF engulfing THEN "engulfing"
    ELSE "none"

\* evaluate_exit_logic on one tick of the held option, lines 1175-1300: the
\* profit target, break-even, the red candle, the mode switch, the trailing
\* stop of the mode, the stop check and the invalidation check. `red` is the
\* test of line 1206 (the option's live candle opened above ltp),
\* `have_candles` that of line 1212, `momentum` that of line 1236. In Sustained
\* Momentum mode line 1252 / 1262 reads self.strategy, which a Strategy does
\* not have: the AttributeError ends the evaluation there.
EvaluateExit ==
    /\ p.open
    /\ \E ltp \in Prices, red \in BOOLEAN, have_candles \in BOOLEAN,
          momentum \in BOOLEAN, engulfing \in BOOLEAN, up \in BOOLEAN,
          closed \in BOOLEAN :
         LET target_hit == /\ params.trade_profit_target > 0
                           /\ (ltp - p.entry_price) * p.qty >= params.trade_profit_target
             be_now == /\ params.break_even_percent > 0
                       /\ ~break_even_triggered
                       /\ (ltp - p.entry_price) * 100
                             >= params.break_even_percent * p.entry_price
             be == break_even_triggered \/ be_now
             p1 == IF be_now THEN [p EXCEPT !.break_even_price = p.entry_price] ELSE p
             new_mode == IF momentum THEN "Sustained Momentum" ELSE "Normal"
             mode_now == IF have_candles THEN new_mode ELSE exit_mode
             p2 == NormalTrail(p1, ltp, be, up)
             stop == IF mode_now = "Normal" THEN p2.trail_sl ELSE p1.trail_sl
             reason == ExitReason(target_hit, red, have_candles, mode_now,
                                  ltp <= p2.trail_sl, engulfing)
         IN  /\ tick' = [target |-> target_hit, red |-> red, candles |-> have_candles,
                         engulfing |-> engulfing, breached |-> ltp <= stop,
                         mode |-> mode_now, reason |-> reason]
             /\ IF target_hit
                THEN /\ p' = Exited(p, closed)
                     /\ UNCHANGED <<exit_mode, break_even_triggered>>
                ELSE /\ break_even_triggered' = be
                     /\ IF red
                        THEN p' = Exited(p1, closed) /\ UNCHANGED exit_mode
                        ELSE IF ~have_candles
                        THEN p' = p1 /\ UNCHANGED exit_mode
                        ELSE /\ exit_mode' = new_mode
                             /\ IF new_mode = "Sustained Momentum"
                                THEN p' = p1
                                ELSE IF reason # "none"
                                THEN p' = Exited(p2, closed)
                                ELSE p' = p2
    /\ UNCHANGED params
    /\ UNCHANGED <<ordVars, posVars, uiVars, candleVars, auxVars>>

ParamChoices ==
    [break_even_percent : {0, 3}, trade_profit_target : {0, 1500}]

InitExit ==
    /\ OrderIdle
    /\ ResetState("Paper")
    /\ params \in ParamChoices
    /\ UiIdle
    /\ CandlesEmpty
    /\ AuxIdle

NextExit == Enter \/ EvaluateExit

SpecExit == InitExit /\ [][NextExit]_vars

\* The same in live trading, with break-even switched on.
InitExitLive ==
    /\ OrderIdle
    /\ ResetState("Live")
    /\ params \in {q \in ParamChoices : q.break_even_percent > 0}
    /\ UiIdle
    /\ CandlesEmpty
    /\ AuxIdle

SpecExitLive == InitExitLive /\ [][NextExit]_vars

--------------------------------------------------------------------------
\* Claims about the trailing stop, checked under SpecExit.

\* C10: while a position is open its trail_sl never decreases from one tick
\* to the next, in Normal mode, in Sustained Momentum mode, and across
\* switches between the two.
C10_TrailSlNonDecreasing ==
    [][(p.open /\ p'.open) => p'.trail_sl >= p.trail_sl]_vars

\* An open position whose stop has been raised above its initial value, with
\* the exit mode switched to Sustained Momentum since.
C10_Witness ==
    /\ p.open /\ exit_mode = "Sustained Momentum"
    /\ p.trail_sl > InitialSl(p.entry_price) + 10
    /\ p.max_price > p.entry_price

TargetExcludesBreach ==
    ~(tick.target /\ tick.breached)

\* C12: on a tick where an invalidation (the option's red candle, or an
\* engulfing candle of the index against the position) and a breach of the
\* trailing stop both hold, the exit reason is the invalidation. Stated for
\* ticks in Normal mode with closed index candles, where every check is made.
C12_InvalidationBeforeStop ==
    (/\ ~tick.target /\ tick.candles /\ tick.mode = "Normal"
     /\ (tick.red \/ tick.engulfing) /\ tick.breached)
        => tick.reason \in {"red", "engulfing"}

\* C13: on every tick of the held option, if no earlier trigger exits and the
\* price is at or below the trailing stop, exit_position is called on that
\* tick with the stop reason, in either exit mode and for any number of
\* closed index candles.
C13_StopBreachExits ==
    (~tick.target /\ ~tick.red /\ ~tick.engulfing /\ tick.breached)
        => tick.reason = "sl"

\* The step is a tick on which evaluate_exit_logic ran through the update of
\* the stop (line 1282) and left the position open.
StopUpdateCompleted ==
    /\ p.open /\ p'.open
    /\ tick'.candles /\ tick'.mode = "Normal" /\ ~tick'.target /\ ~tick'.red

\* The break-even flag is false when a position begins (line 1099).
FlagClearedOnEntry == (~p.open /\ p'.open) => ~break_even_triggered'

--------------------------------------------------------------------------
\* The ticker connection, periodic_ui_updater and stop_bot
\*
\* KiteTickerManager's callbacks run on the ticker's thread and flip
\* is_connected at any moment.  periodic_ui_updater is one task that polls
\* once a second; stop_bot is an API request.  exit_position is taken here
\* by its outcome only: it returns with the position closed or still open.

\* The failsafe window of periodic_ui_updater, in seconds.
FailsafeSeconds == 15

\* The clock advances in steps of StepSeconds up to MaxSeconds.
StepSeconds == 5
MaxSeconds == 30

\* KiteTickerManager.on_connect: is_connected = True.
OnConnect ==
    /\ ~is_connected /\ stop_pc # "released"
    /\ is_connected' = TRUE
    /\ down_at' = NoTime
    /\ UNCHANGED <<disconnected_since, now, after_cutoff, ui_pc, exit_reason, stop_pc>>
    /\ UNCHANGED <<ordVars, posVars, exitVars, candleVars, auxVars>>

\* KiteTickerManager.on_close: is_connected = False.
OnClose ==
    /\ is_connected
    /\ is_connected' = FALSE
    /\ down_at' = now
    /\ UNCHANGED <<disconnected_since, now, after_cutoff, ui_pc, exit_reason, stop_pc>>
    /\ UNCHANGED <<ordVars, posVars, exitVars, candleVars, auxVars>>

\* Time passes; the cutoff time of 15:15, once reached, stays reached.
ClockTick ==
    /\ now + StepSeconds <= MaxSeconds
    /\ now' = now + StepSeconds
    /\ after_cutoff' \in {after_cutoff, TRUE}
    /\ UNCHANGED <<is_connected, disconnected_since, ui_pc, exit_reason, stop_pc, down_at>>
    /\ UNCHANGED <<ordVars, posVars, exitVars, candleVars, auxVars>>

\* take_trade, run by a tick handler that may have started before the
\* connection was lost, assigns self.position.
PositionOpens ==
    /\ ~position.open /\ stop_pc # "released"
    /\ position' = [open |-> TRUE, qty |-> LotSize, by |-> "h1"]
    /\ UNCHANGED <<posRest, ordVars, exitVars, uiVars, candleVars, auxVars>>

\* exit_position called by a tick handler or by manual_exit_trade closes the
\* position.
PositionCloses ==
    /\ position.open
    /\ position' = NoPos
    /\ UNCHANGED <<posRest, ordVars, exitVars, uiVars, candleVars, auxVars>>

\* One iteration of periodic_ui_updater's loop, up to its exit_position call
\* or its sleep.
UpdaterPoll ==
    /\ ui_pc = "sleep"
    /\ IF position.open /\ ~is_connected
       THEN LET since == IF disconnected_since = NoTime
                         THEN now ELSE disconnected_since
            IN  /\ disconnected_since' = since
                /\ IF now - since > FailsafeSeconds
                   THEN ui_pc' = "exit" /\ exit_reason' = "failsafe"
                   ELSE UNCHANGED <<ui_pc, exit_reason>>
       ELSE IF is_connected
            THEN /\ disconnected_since' = NoTime
                 /\ IF position.open /\ after_cutoff
                    THEN ui_pc' = "exit" /\ exit_reason' = "eod"
                    ELSE UNCHANGED <<ui_pc, exit_reason>>
            ELSE UNCHANGED <<disconnected_since, ui_pc, exit_reason>>
    /\ UNCHANGED <<is_connected, now, after_cutoff, stop_pc, down_at>>
    /\ UNCHANGED <<ordVars, posVars, exitVars, candleVars, auxVars>>

\* The updater's exit_position call returns; "continue" starts the next
\* iteration.
UpdaterExitReturns ==
    /\ ui_pc = "exit"
    /\ position' \in {NoPos, position}
    /\ ui_pc' = "sleep"
    /\ UNCHANGED <<is_connected, disconnected_since, now, after_cutoff,
                   exit_reason, stop_pc, down_at>>
    /\ UNCHANGED <<posRest, ordVars, exitVars, candleVars, auxVars>>

\* stop_bot up to its first await: HTTP 400 unless the ticker is connected,
\* else exit_position("Bot Stopped by User") if there is a position.
StopRequest ==
    /\ stop_pc = "idle"
    /\ IF ~is_connected
       THEN stop_pc' = "rejected" /\ UNCHANGED exit_reason
       ELSE IF position.open
            THEN stop_pc' = "exit" /\ exit_reason' = "stopped"
            ELSE stop_pc' = "cleanup" /\ UNCHANGED exit_reason
    /\ UNCHANGED <<is_connected, disconnected_since, now, after_cutoff, ui_pc, down_at>>
    /\ UNCHANGED <<ordVars, posVars, exitVars, candleVars, auxVars>>

\* The HTTP 400 has been sent; the next stop request can come.
StopRejected ==
    /\ stop_pc = "rejected"
    /\ stop_pc' = "idle"
    /\ UNCHANGED <<is_connected, disconnected_since, now, after_cutoff, ui_pc,
                   exit_reason, down_at>>
    /\ UNCHANGED <<ordVars, posVars, exitVars, candleVars, auxVars>>

\* stop_bot's exit_position call returns, then asyncio.sleep(1).
StopExitReturns ==
    /\ stop_pc = "exit"
    /\ position' \in {NoPos, position}
    /\ stop_pc' = "cleanup"
    /\ UNCHANGED <<is_connected, disconnected_since, now, after_cutoff, ui_pc,
                   exit_reason, down_at>>
    /\ UNCHANGED <<posRest, ordVars, exitVars, candleVars, auxVars>>

\* _cleanup_bot_state: the ticker is stopped, the periodic task cancelled,
\* the instances dropped.
StopRelease ==
    /\ stop_pc = "cleanup"
    /\ stop_pc' = "released"
    /\ is_connected' = FALSE
    /\ down_at' = IF is_connected THEN now ELSE down_at
    /\ ui_pc' = "cancelled"
    /\ UNCHANGED <<disconnected_since, now, after_cutoff, exit_reason>>
    /\ UNCHANGED <<ordVars, posVars, exitVars, candleVars, auxVars>>

InitUi ==
    /\ OrderIdle
    /\ ResetState("Paper")
    /\ params = DefaultParams
    /\ UiIdle
    /\ CandlesEmpty
    /\ AuxIdle

NextUi ==
    \/ OnConnect \/ OnClose \/ ClockTick
    \/ PositionOpens \/ PositionCloses
    \/ UpdaterPoll \/ UpdaterExitReturns
    \/ StopRequest \/ StopRejected \/ StopExitReturns \/ StopRelease

SpecUi == InitUi /\ [][NextUi]_vars

\* C16: the updater invokes exit_position with the failsafe reason only when
\* a position is open and the connection has been lost, without a break, for
\* longer than the failsafe window: a connection restored before the window
\* elapsed cancels the timer, and a later loss starts a fresh window.
C16_FailsafeOnlyAfterFullWindow ==
    [][(ui_pc = "sleep" /\ ui_pc' = "exit" /\ exit_reason' = "failsafe")
         => (~is_connected /\ now - down_at > FailsafeSeconds)]_vars

\* C17: an iteration of the updater that finds a position open at or after
\* the cutoff time invokes exit_position with the end-of-day reason, whether
\* the ticker is connected or not.
C17_EndOfDayExitInOnePoll ==
    [][(UpdaterPoll /\ position.open /\ after_cutoff)
         => (ui_pc' = "exit" /\ exit_reason' = "eod")]_vars

\* C18: a stop request made while a position is open calls exit_position for
\* it before anything is released, whether the ticker is connected or not.
C18_StopExitsOpenPosition ==
    [][(StopRequest /\ position.open)
         => (stop_pc' = "exit" /\ exit_reason' = "stopped")]_vars

--------------------------------------------------------------------------
\* DataManager: the live candles and the closed-candle series
\*
\* handle_ticks_async folds each tick into the live candle of its symbol with
\* update_live_candle and, for the index at a new minute, awaits
\* on_new_minute.  on_new_minute runs to its await of _update_trend_state in
\* the same step; that await suspends only when the trend changes and the
\* log line is sent, and the last line of on_new_minute runs after it.

TickPrices == 1..MaxPrice

RECURSIVE SumLen(_, _)
SumLen(f, n) == IF n = 0 THEN 0 ELSE Len(f[n]) + SumLen(f, n - 1)

\* Ticks received so far.
TicksSeen == SumLen(index_ticks, MaxMinutes) + SumLen(option_ticks, MaxMinutes)

\* update_live_candle with the high left as it was.
UpdateLiveCandleKeepHigh(c, ltp, m) ==
    IF c.minute # m
    THEN [minute |-> m, open |-> ltp, high |-> ltp, low |-> ltp, close |-> ltp]
    ELSE [c EXCEPT !.low = Min(c.low, ltp), !.close = ltp]

\* update_live_candle: the candle dict after folding ltp in at minute m.
UpdateLiveCandle(c, ltp, m) ==
    IF c.minute # m
    THEN [minute |-> m, open |-> ltp, high |-> ltp, low |-> ltp, close |-> ltp]
    ELSE [c EXCEPT !.high = Max(c.high, ltp), !.low = Min(c.low, ltp),
                   !.close = ltp]

\* The dict on_new_minute assigns to self.current_candle in its last line.
FreshCandle(ltp, m) ==
    [minute |-> m, open |-> ltp, high |-> ltp, low |-> ltp, close |-> ltp]

\* The wall clock reaches the next minute.
MinuteRolls ==
    /\ minute < MaxMinutes
    /\ minute' = minute + 1
    /\ UNCHANGED <<current_candle, option_candle, data_df, pending,
                   index_ticks, option_ticks>>
    /\ UNCHANGED <<ordVars, posVars, exitVars, uiVars, auxVars>>

\* handle_ticks_async for a tick of the index, up to the first suspension:
\* update_live_candle mutates self.current_candle in place; at a new minute
\* on_new_minute then appends a copy of self.current_candle to data_df and
\* either finishes at once or suspends before its last line.
IndexTick ==
    /\ TicksSeen < MaxTicks
    /\ \E ltp \in TickPrices, suspends \in BOOLEAN :
         LET is_new_minute == current_candle.minute # minute
             folded == UpdateLiveCandle(current_candle, ltp, minute)
         IN  /\ index_ticks' = [index_ticks EXCEPT ![minute] = Append(@, ltp)]
             /\ IF is_new_minute
                THEN /\ data_df' = Append(data_df, folded)
                     /\ IF suspends /\ pending = NoPrice
                        THEN /\ pending' = ltp
                             /\ current_candle' = folded
                        ELSE /\ current_candle' = FreshCandle(ltp, minute)
                             /\ UNCHANGED pending
                ELSE /\ ~suspends
                     /\ current_candle' = folded
                     /\ UNCHANGED <<data_df, pending>>
    /\ UNCHANGED <<option_candle, minute, option_ticks>>
    /\ UNCHANGED <<ordVars, posVars, exitVars, uiVars, auxVars>>

\* on_new_minute resumes after its await and runs its last line.
OnNewMinuteResumes ==
    /\ pending # NoPrice
    /\ current_candle' = FreshCandle(pending, minute)
    /\ pending' = NoPrice
    /\ UNCHANGED <<option_candle, data_df, minute, index_ticks, option_ticks>>
    /\ UNCHANGED <<ordVars, posVars, exitVars, uiVars, auxVars>>

\* handle_ticks_async for a tick of the option: update_live_candle on
\* self.option_candles[symbol].
OptionTick ==
    /\ TicksSeen < MaxTicks
    /\ \E ltp \in TickPrices :
         /\ option_candle' = UpdateLiveCandle(option_candle, ltp, minute)
         /\ option_ticks' = [option_ticks EXCEPT ![minute] = Append(@, ltp)]
    /\ UNCHANGED <<current_candle, data_df, minute, pending, index_ticks>>
    /\ UNCHANGED <<ordVars, posVars, exitVars, uiVars, auxVars>>

InitCandle ==
    /\ OrderIdle
    /\ ResetState("Paper")
    /\ params = DefaultParams
    /\ UiIdle
    /\ CandlesEmpty
    /\ AuxIdle

NextCandle == MinuteRolls \/ IndexTick \/ OnNewMinuteResumes \/ OptionTick

SpecCandle == InitCandle /\ [][NextCandle]_vars

RECURSIVE SeqMax(_)
SeqMax(ts) == IF Len(ts) = 1 THEN ts[1] ELSE Max(ts[1], SeqMax(Tail(ts)))

RECURSIVE SeqMin(_)
SeqMin(ts) == IF Len(ts) = 1 THEN ts[1] ELSE Min(ts[1], SeqMin(Tail(ts)))

\* The candle of the ticks ts of minute m: first, maximum, minimum, last.
CandleOf(ts, m) ==
    [minute |-> m, open |-> ts[1], high |-> SeqMax(ts), low |-> SeqMin(ts),
     close |-> ts[Len(ts)]]

\* high >= max(open, close) and low <= min(open, close).
Ordered(c) ==
    /\ c.high >= Max(c.open, c.close)
    /\ c.low <= Min(c.open, c.close)

C20_AppendedIsJustClosed ==
    [][(Len(data_df') > Len(data_df) /\ current_candle.minute # 0)
         => LET m == current_candle.minute
            IN  /\ index_ticks[m] # <<>>
                /\ data_df'[Len(data_df')] = CandleOf(index_ticks[m], m)]_vars

--------------------------------------------------------------------------
\* DataManager._update_trend_state and Strategy.on_trend_update
\*
\* on_new_minute and bootstrap_data recompute the indicators and then the
\* trend from the last row of data_df.

\* Closes and band values are 1..MaxBand; on_trend_update is called at most
\* MaxTrendEvents times.
MaxBand == 3
MaxTrendEvents == 3

TrendPrices == 1..MaxBand

\* The comparison of _update_trend_state with the band's own value counted
\* as bullish.
TrendOfAtOrAbove(close, supertrend) ==
    IF close >= supertrend THEN "BULLISH" ELSE "BEARISH"

\* _update_trend_state, line 269: the trend of a row whose band is defined.
TrendOf(close, supertrend) ==
    IF close > supertrend THEN "BULLISH" ELSE "BEARISH"

\* The row has a band value _update_trend_state can use (lines 261-266).
BandDefined(row) ==
    row.rows >= 2 /\ row.has_column /\ row.supertrend # NaN

\* _update_trend_state with on_trend_update: trend_state is assigned before
\* on_trend_update compares it with new_trend, so the comparison never
\* differs and trend_candle_count is incremented.
UpdateTrendState ==
    /\ \E rows \in 1..2, has_column \in BOOLEAN, close \in TrendPrices,
          supertrend \in TrendPrices \cup {NaN} :
         LET row == [rows |-> rows, has_column |-> has_column,
                     close |-> close, supertrend |-> supertrend]
             current_state == TrendOf(close, supertrend)
         IN  /\ last_row' = row
             /\ IF BandDefined(row) /\ trend_state # current_state
                THEN /\ trend_candle_count < MaxTrendEvents
                     /\ trend_state' = current_state
                     /\ trend_candle_count' =
                          IF trend_state' # current_state
                          THEN 1 ELSE trend_candle_count + 1
                ELSE UNCHANGED <<trend_state, trend_candle_count>>
    /\ UNCHANGED <<coreVars, fnVars, coordVars, gauntVars, extVars>>

InitTrend ==
    /\ OrderIdle
    /\ ResetState("Paper")
    /\ params = DefaultParams
    /\ UiIdle
    /\ CandlesEmpty
    /\ AuxIdle

NextTrend == UpdateTrendState

SpecTrend == InitTrend /\ [][NextTrend]_vars

\* C21: after a recomputation the trend is BULLISH if the last row's close
\* is above its band value and BEARISH otherwise; it keeps its value when the
\* band value is undefined; on_trend_update is called exactly when the trend
\* changes.
C21_TrendFollowsBand ==
    [][ /\ BandDefined(last_row') =>
             trend_state' = (IF last_row'.close > last_row'.supertrend
                             THEN "BULLISH" ELSE "BEARISH")
        /\ ~BandDefined(last_row') => trend_state' = trend_state
        /\ trend_candle_count' \in {trend_candle_count, trend_candle_count + 1}
        /\ (trend_candle_count' # trend_candle_count) <=> (trend_state' # trend_state)
      ]_vars

\* The trend went bullish and then bearish on a close equal to the band.
C21_Witness ==
    /\ trend_state = "BEARISH"
    /\ trend_candle_count = 2
    /\ BandDefined(last_row)
    /\ last_row.close = last_row.supertrend

--------------------------------------------------------------------------
\* The entry engines and undefined indicator values (entry_strategies.py)
\*
\* calculate_supertrend fills supertrend and supertrend_uptrend with NaN when
\* data_df has fewer rows than the supertrend period.  Each engine is taken
\* from the point where it reads these columns; what it computed from the
\* candles before that point (the breakout side, its quality score) is an
\* input.

\* A cell of supertrend_uptrend: True, False or NaN.
Tri == {"True", "False", "NaN"}

\* The quality score of a breakout runs up to MaxScore.
MaxScore == 6

\* V47VolatilityBreakoutEngine.check, lines 183-237: the side returned, or
\* "none".  range_bonus is the result of comparing the range with the band.
VolatilityBreakoutDecision(side, quality_score, has_columns, curr_uptrend, supertrend_notna, range_bonus, opt) ==
    LET usable == has_columns /\ curr_uptrend # "NaN" /\ supertrend_notna
        trend_aligned == \/ side = "CE" /\ curr_uptrend = "True"
                         \/ side = "PE" /\ curr_uptrend = "False"
        trend_alignment_bonus == IF usable /\ trend_aligned THEN 1 ELSE 0
        combo_bonus == IF usable /\ trend_aligned THEN range_bonus ELSE 0
        allow_trade == IF usable
                       THEN trend_aligned \/ quality_score >= 5
                       ELSE TRUE
        final_score == quality_score + trend_alignment_bonus + combo_bonus
    IN  IF allow_trade /\ final_score >= 3 /\ opt THEN side ELSE "none"

\* Series.sum() over the last five cells: NaN cells are skipped.
BullishCount(cells) == Cardinality({i \in 1..5 : cells[i] = "True"})

\* V47TrendContinuationEngine._determine_trend_state.
DetermineTrendState(has_column, rows_ok, cells) ==
    IF ~has_column \/ ~rows_ok THEN "none"
    ELSE IF BullishCount(cells) >= 3 THEN "BULLISH"
    ELSE IF BullishCount(cells) <= 2 THEN "BEARISH"
    ELSE "none"

\* V47CounterTrendEngine._get_current_trend.
GetCurrentTrend(has_column, rows_ok, cell) ==
    IF ~has_column \/ ~rows_ok THEN "none"
    ELSE IF cell = "NaN" THEN "none"
    ELSE IF cell = "True" THEN "BULLISH" ELSE "BEARISH"

\* The caller has used the result; the next call can be made.
ResultUsed ==
    /\ args # NoArgs
    /\ args' = NoArgs
    /\ returned' = "none"
    /\ UNCHANGED <<coreVars, trendVars, coordVars, gauntVars, extVars>>

\* One call of V47VolatilityBreakoutEngine.check that found a breakout.
CheckVolatilityBreakout ==
    /\ args = NoArgs
    /\ \E side \in {"CE", "PE"}, quality_score \in 0..MaxScore,
          has_columns \in BOOLEAN, curr_uptrend \in Tri,
          supertrend_notna \in BOOLEAN, range_bonus \in 0..2, opt \in BOOLEAN :
         /\ args' = [fn |-> "volatility_breakout", side |-> side,
                     quality_score |-> quality_score,
                     has_columns |-> has_columns, curr_uptrend |-> curr_uptrend,
                     supertrend_notna |-> supertrend_notna,
                     range_bonus |-> range_bonus, opt |-> opt]
         /\ returned' = VolatilityBreakoutDecision(side, quality_score,
                            has_columns, curr_uptrend, supertrend_notna,
                            range_bonus, opt)
    /\ UNCHANGED <<coreVars, trendVars, coordVars, gauntVars, extVars>>

\* One call of _determine_trend_state.
CallDetermineTrendState ==
    /\ args = NoArgs
    /\ \E has_column \in BOOLEAN, rows_ok \in BOOLEAN, cells \in [1..5 -> Tri] :
         /\ args' = [fn |-> "determine_trend_state", has_column |-> has_column,
                     rows_ok |-> rows_ok, cells |-> cells]
         /\ returned' = DetermineTrendState(has_column, rows_ok, cells)
    /\ UNCHANGED <<coreVars, trendVars, coordVars, gauntVars, extVars>>

\* One call of _get_current_trend.
CallGetCurrentTrend ==
    /\ args = NoArgs
    /\ \E has_column \in BOOLEAN, rows_ok \in BOOLEAN, cell \in Tri :
         /\ args' = [fn |-> "get_current_trend", has_column |-> has_column,
                     rows_ok |-> rows_ok, cell |-> cell]
         /\ returned' = GetCurrentTrend(has_column, rows_ok, cell)
    /\ UNCHANGED <<coreVars, trendVars, coordVars, gauntVars, extVars>>

InitEngines ==
    /\ OrderIdle
    /\ ResetState("Paper")
    /\ params = DefaultParams
    /\ UiIdle
    /\ CandlesEmpty
    /\ AuxIdle

NextEngines ==
    \/ CheckVolatilityBreakout \/ CallDetermineTrendState \/ CallGetCurrentTrend
    \/ ResultUsed

SpecEngines == InitEngines /\ [][NextEngines]_vars

\* C22: an engine whose trend-band value or direction is undefined returns
\* no candidate and no trend: the volatility breakout engine returns "none"
\* when the supertrend columns are missing or NaN, _determine_trend_state
\* returns no trend when any of the five cells it reads is NaN, and
\* _get_current_trend returns no trend for a NaN cell.
C22_UndefinedMeansNoSignal ==
    /\ (args.fn = "volatility_breakout"
          /\ (~args.has_columns \/ args.curr_uptrend = "NaN"
                \/ ~args.supertrend_notna))
         => returned = "none"
    /\ (args.fn = "determine_trend_state"
          /\ \E i \in 1..5 : args.cells[i] = "NaN")
         => returned = "none"
    /\ (args.fn = "get_current_trend" /\ args.cell = "NaN")
         => returned = "none"

--------------------------------------------------------------------------
\* V47StrategyCoordinator and the validation gauntlet within one index tick
\*
\* handle_ticks_async, lines 1391-1403: at a new minute on_new_candle runs if
\* there is no position, then continuous_monitoring runs if there is no
\* position.  What an engine returns, what each layer of the gauntlet
\* returns and whether take_trade opens the position are inputs.

\* The engines in the order of self.engines: 1 Volatility Breakout,
\* 2 Supertrend Flip, 3 Trend Continuation, 4 Counter-Trend.
Engines == 1..4

\* What engine.check() does: no signal, a candidate, or an exception.
EngineResults == {"none", "candidate", "raise"}

\* The gauntlet without its third layer.
ValidateEntryTwoLayers(l1, l2, l3) ==
    IF ~l1 THEN <<FALSE>> ELSE <<TRUE, l2>>

\* _enhanced_validate_entry_conditions_with_candle_color: the results of the
\* layers it evaluated, in order; it returns the last of them.
ValidateEntry(l1, l2, l3) ==
    IF ~l1 THEN <<FALSE>>
    ELSE IF ~l2 THEN <<TRUE, FALSE>>
    ELSE <<TRUE, TRUE, l3>>

\* take_trade as its caller sees it: the position it leaves.  It returns
\* without a position when the ATM confirmation fails, the sizer rejects or
\* the order fails.
TradeOutcomes ==
    {NoPos, [open |-> TRUE, qty |-> LotSize, by |-> "h1"]}

\* handle_ticks_async takes an index tick, lines 1385-1399.
CoordTick ==
    /\ coord.pc = "idle"
    /\ \E is_new_minute \in BOOLEAN :
         coord' = [CoordIdle EXCEPT
                     !.is_new_minute = is_new_minute,
                     !.pc = IF position.open THEN "idle"
                            ELSE IF is_new_minute THEN "new_candle"
                            ELSE "monitor",
                     !.i = IF ~position.open /\ ~is_new_minute THEN 1 ELSE 0]
    /\ UNCHANGED <<coreVars, trendVars, fnVars, gauntVars, extVars>>

\* on_new_candle: the flip engine, the gauntlet, take_trade; then line 1402.
OnNewCandle ==
    /\ coord.pc = "new_candle"
    /\ \E res \in EngineResults, l1 \in BOOLEAN, l2 \in BOOLEAN, l3 \in BOOLEAN,
          after \in TradeOutcomes :
         LET layers == IF res = "candidate" THEN ValidateEntry(l1, l2, l3)
                       ELSE <<>>
             valid == layers # <<>> /\ layers[Len(layers)]
         IN  /\ position' = IF valid THEN after ELSE position
             /\ coord' = [coord EXCEPT
                            !.layers = layers,
                            !.error = (res = "raise"),
                            !.calls = IF valid THEN @ + 1 ELSE @,
                            !.pc = IF position'.open THEN "idle" ELSE "monitor",
                            !.i = IF position'.open THEN 0 ELSE 1]
    /\ UNCHANGED <<ordVars, posRest, exitVars, uiVars, candleVars,
                   trendVars, fnVars, gauntVars, extVars>>

\* One pass of the loop of check_all_v47_entries, for engine coord.i.
CheckEngine ==
    /\ coord.pc = "monitor"
    /\ \E res \in EngineResults, l1 \in BOOLEAN, l2 \in BOOLEAN, l3 \in BOOLEAN,
          after \in TradeOutcomes :
         LET layers == IF res = "candidate" THEN ValidateEntry(l1, l2, l3)
                       ELSE <<>>
             valid == layers # <<>> /\ layers[Len(layers)]
             done == valid \/ coord.i = 4
         IN  /\ position' = IF valid THEN after ELSE position
             /\ coord' = [coord EXCEPT
                            !.layers = layers,
                            !.error = (res = "raise"),
                            !.cands = IF res = "candidate"
                                      THEN @ \cup {coord.i} ELSE @,
                            !.traded = IF valid THEN @ \cup {coord.i} ELSE @,
                            !.calls = IF valid THEN @ + 1 ELSE @,
                            !.pc = IF done THEN "idle" ELSE "monitor",
                            !.i = IF done THEN 0 ELSE @ + 1]
    /\ UNCHANGED <<ordVars, posRest, exitVars, uiVars, candleVars,
                   trendVars, fnVars, gauntVars, extVars>>

\* exit_position, run for a later tick of the option, closes the position.
CoordExit ==
    /\ coord.pc = "idle" /\ position.open
    /\ position' = NoPos
    /\ UNCHANGED <<ordVars, posRest, exitVars, uiVars, candleVars, auxVars>>

InitCoord ==
    /\ OrderIdle
    /\ ResetState("Paper")
    /\ params = DefaultParams
    /\ UiIdle
    /\ CandlesEmpty
    /\ AuxIdle

NextCoord == CoordTick \/ OnNewCandle \/ CheckEngine \/ CoordExit

SpecCoord == InitCoord /\ [][NextCoord]_vars

\* C23: in one call of check_all_v47_entries no candidate is handed to
\* take_trade when an engine of higher priority returned a candidate in the
\* same call.
C23_FirstCandidateOnly ==
    \A j \in coord.traded : \A k \in coord.cands : k >= j

\* C24: take_trade is invoked at most once while one index tick is handled.
C24_OneTradeDecisionPerTick == coord.calls <= 1

--------------------------------------------------------------------------
\* The validation gauntlet on the state the tick pipeline builds
\* (strategy.py handle_ticks_async, data_manager.py update_price_history and
\* update_live_candle; strategy.py layers 2 and 3 of the gauntlet).

MaxGauntletTicks == 5
GauntletPrices == 99..102
ClockSteps == {1, 60}
HistoryTrimLen == 10
HistoryTrimAge == 60
EntryProximityPermille == 15
HigherLowPermille == 5

\* dict.get(key, default)
DictGet(d, key, default) == IF key \in DOMAIN d THEN d[key] ELSE default

\* update_price_history (the later of the two definitions in DataManager):
\* appends the pair (time.time(), price); once more than 10 pairs are held,
\* keeps those at most 60 seconds old.
UpdatePriceHistory(h, ts, price) ==
    LET appended == Append(h, <<ts, price>>)
        Fresh(e) == ts - e[1] <= HistoryTrimAge
    IN  IF Len(appended) > HistoryTrimLen
        THEN SelectSeq(appended, Fresh)
        ELSE appended

\* update_live_candle for an option symbol: the dict option_candles[symbol]
\* after the tick. It holds the keys minute, open, high, low, close and no
\* others.
UpdateOptionCandle(d, ltp, m) ==
    IF DictGet(d, "minute", -1) # m
    THEN [minute |-> m, open |-> ltp, high |-> ltp, low |-> ltp, close |-> ltp]
    ELSE IF "open" \in DOMAIN d
         THEN [d EXCEPT !.high = Max(DictGet(d, "high", ltp), ltp),
                        !.low = Min(DictGet(d, "low", ltp), ltp),
                        !.close = ltp]
         ELSE d

\* _validate_option_candle_structure: None (a missing key) is written 0;
\* `not x` is true of both.
ValidateOptionCandleStructure(current_price, oc) ==
    LET open_price == DictGet(oc, "open", 0)
        prev_close == DictGet(oc, "prev_close", 0)
        prev_high == DictGet(oc, "prev_high", 0)
        prev_low == DictGet(oc, "prev_low", 0)
    IN  /\ current_price # 0
        /\ DOMAIN oc # {} /\ "open" \in DOMAIN oc
        /\ open_price # 0 /\ prev_close # 0
        /\ current_price > prev_close
        /\ current_price > open_price
        /\ current_price * 1000 <= prev_close * (1000 + EntryProximityPermille)
        /\ \/ current_price > prev_high
           \/ /\ current_price > prev_low
              /\ current_price * 1000 > open_price * (1000 + HigherLowPermille)

\* Python's <= on two (timestamp, price) tuples.
TupleLE(a, b) == a[1] < b[1] \/ (a[1] = b[1] /\ a[2] <= b[2])

\* is_price_rising(symbol, lookback = 3): compares the entries of
\* price_history, which are tuples.
IsPriceRising(h) ==
    /\ Len(h) >= 4
    /\ \A i \in (Len(h) - 2)..Len(h) : ~TupleLE(h[i], h[i - 1])

\* _validate_micro_momentum: "False", "True" or the exception raised.
\* _is_accelerating subtracts two entries of price_history; they are tuples,
\* so with four or more entries it raises TypeError and the later checks of
\* the layer are not reached.
ValidateMicroMomentum(h) ==
    IF ~IsPriceRising(h) THEN "False"
    ELSE IF Len(h) < 4 THEN "False"
    ELSE "TypeError"

\* _enhanced_validate_entry_conditions_with_candle_color, with layer 1's
\* result l1 given: "PASS" (True), "FAIL" (False) or the exception raised.
Gauntlet(l1, current_price, oc, h) ==
    IF ~l1 THEN "FAIL"
    ELSE IF ~ValidateOptionCandleStructure(current_price, oc) THEN "FAIL"
    ELSE LET l3 == ValidateMicroMomentum(h)
         IN  IF l3 = "False" THEN "FAIL"
             ELSE IF l3 = "True" THEN "PASS"
             ELSE l3

\* handle_ticks_async for a tick of the option: prices[symbol] = ltp,
\* update_price_history, update_live_candle.
GauntletTick ==
    /\ gt.ticks < MaxGauntletTicks
    /\ \E ltp \in GauntletPrices, dt \in ClockSteps :
         LET ts == gt.now + dt
             m == ts \div 60
             oc == gt.option_candle
             is_new_minute == DictGet(oc, "minute", -1) # m
         IN  gt' = [gt EXCEPT
                 !.now = ts,
                 !.ticks = @ + 1,
                 !.price = ltp,
                 !.price_history = UpdatePriceHistory(@, ts, ltp),
                 !.previous_option_candle =
                     IF is_new_minute /\ "minute" \in DOMAIN oc THEN oc ELSE @,
                 !.option_candle = UpdateOptionCandle(oc, ltp, m),
                 !.result = "none"]
    /\ UNCHANGED <<coreVars, trendVars, fnVars, coordVars, extVars>>

\* The gauntlet is run on a candidate for the option.
RunGauntlet ==
    /\ gt.ticks > 0
    /\ gt.result = "none"
    /\ \E l1 \in BOOLEAN :
         gt' = [gt EXCEPT
                 !.layer1 = l1,
                 !.result = Gauntlet(l1, gt.price, gt.option_candle,
                                     gt.price_history)]
    /\ UNCHANGED <<coreVars, trendVars, fnVars, coordVars, extVars>>

InitGauntlet ==
    /\ OrderIdle
    /\ ResetState("Paper")
    /\ params = DefaultParams
    /\ UiIdle
    /\ CandlesEmpty
    /\ AuxIdle

NextGauntlet == GauntletTick \/ RunGauntlet

SpecGauntlet == InitGauntlet /\ [][NextGauntlet]_vars

\* The prices of the last n ticks of the option.
LastPrices(n) ==
    [i \in 1..n |-> gt.price_history[Len(gt.price_history) - n + i][2]]

\* The setup of the scenario: layer 1 confirmed, the option at least 2% above
\* the open of its candle and above the high of its previous candle.
ScenarioSetup ==
    /\ gt.result # "none"
    /\ gt.layer1
    /\ Len(gt.price_history) >= 4
    /\ DOMAIN gt.previous_option_candle # {}
    /\ gt.price * 100 >= gt.option_candle.open * 102
    /\ gt.price > gt.previous_option_candle.high

\* How many of the last three ticks rose above the tick before.
RisingOfLastThree ==
    LET last == LastPrices(4)
    IN  Cardinality({i \in 2..4 : last[i] > last[i - 1]})

\* C26: with the option 2% above its open, above its prior high and its last
\* three ticks strictly rising the gauntlet returns PASS; with the same setup
\* and only two of the last three ticks rising it returns FAIL.
C26_GauntletScenario ==
    ScenarioSetup =>
        /\ RisingOfLastThree = 3 => gt.result = "PASS"
        /\ RisingOfLastThree = 2 => gt.result = "FAIL"



--------------------------------------------------------------------------
\* RiskManager.calculate_trade_details (risk_manager.py) and its caller
\* Strategy.take_trade (strategy.py).
\*
\* Prices, points and capital are whole rupees; a stop price is held in
\* hundredths of a rupee, so that price * (1 - sl_percent / 100) is exact.

\* Python's None, for a price, a lot size, a cash amount or a quantity.
None == -1

SizerPrices == {None, 0, 1, 50, 100, 101, 200}
SizerLots == {None, 25, 50, 75}
SizerCapitals == {0, 2500, 50000}
SizerCash == {None, 0, 6000, 50000}
SizerRiskPercents == {1, 2}
SizerSlPoints == {0, 5}
SizerSlPercents == {0, 10}
MaxSizerTrades == 2

\* self.params as calculate_trade_details reads it.
SizerParams ==
    [start_capital : SizerCapitals, risk_per_trade_percent : SizerRiskPercents,
     trailing_sl_points : SizerSlPoints, trailing_sl_percent : SizerSlPercents]

\* The defaults of the four params, with a given start_capital.
DefaultSizerParams(capital) ==
    [start_capital |-> capital, risk_per_trade_percent |-> 1,
     trailing_sl_points |-> 5, trailing_sl_percent |-> 10]

\* (None, None)
Rejected == [qty |-> None, initial_sl_price |-> None]

\* The stop a fixed number of points under the price, in hundredths.
InitialSlPricePointsOnly(price, sl_points, sl_percent) ==
    (price - sl_points) * 100

\* calculate_trade_details, line 56: initial_sl_price, in hundredths.
InitialSlPrice(price, sl_points, sl_percent) ==
    Min((price - sl_points) * 100, price * (100 - sl_percent))

\* The sizing that takes the lots the risk allows, whatever the capital.
CalculateTradeDetailsByRiskOnly(price, lot_size, available_cash, prm) ==
    IF price = None \/ price < 1 \/ lot_size = None THEN Rejected
    ELSE
    LET initial_sl_price == InitialSlPrice(price, prm.trailing_sl_points,
                                           prm.trailing_sl_percent)
        risk_per_share == price * 100 - initial_sl_price
        risk_per_lot == risk_per_share * lot_size
        num_lots_by_risk ==
            IF risk_per_lot > 0
            THEN (prm.start_capital * prm.risk_per_trade_percent) \div risk_per_lot
            ELSE 0
    IN  IF risk_per_share <= 0 \/ num_lots_by_risk = 0 THEN Rejected
        ELSE [qty |-> num_lots_by_risk * lot_size,
              initial_sl_price |-> initial_sl_price]

\* calculate_trade_details(price, lot_size, available_cash): (qty,
\* initial_sl_price), or Rejected for (None, None).
\* risk_amount_per_trade / risk_per_lot is
\* (capital * risk_percent / 100) / (risk_per_share * lot_size); with
\* risk_per_share in hundredths the two factors of 100 cancel.
CalculateTradeDetails(price, lot_size, available_cash, prm) ==
    IF price = None \/ price < 1 \/ lot_size = None THEN Rejected
    ELSE
    LET capital == prm.start_capital
        initial_sl_price == InitialSlPrice(price, prm.trailing_sl_points,
                                           prm.trailing_sl_percent)
        risk_per_share == price * 100 - initial_sl_price
        risk_per_lot == risk_per_share * lot_size
        num_lots_by_risk ==
            IF risk_per_lot > 0
            THEN (capital * prm.risk_per_trade_percent) \div risk_per_lot
            ELSE 0
        effective_capital ==
            IF available_cash # None THEN available_cash ELSE capital
        value_per_lot == price * lot_size
        max_lots_by_capital == effective_capital \div value_per_lot
        final_num_lots == Min(num_lots_by_risk, max_lots_by_capital)
    IN  IF risk_per_share <= 0 THEN Rejected
        ELSE IF value_per_lot <= 0 THEN Rejected
        ELSE IF num_lots_by_risk = 0 THEN Rejected
        ELSE IF final_num_lots = 0 THEN Rejected
        ELSE [qty |-> final_num_lots * lot_size,
              initial_sl_price |-> initial_sl_price]

\* One call of calculate_trade_details.
CallCalculateTradeDetails ==
    /\ args = NoArgs
    /\ \E price \in SizerPrices, lot_size \in SizerLots,
          available_cash \in SizerCash, prm \in SizerParams :
         /\ args' = [fn |-> "calculate_trade_details", price |-> price,
                     lot_size |-> lot_size, available_cash |-> available_cash,
                     prm |-> prm]
         /\ returned' = CalculateTradeDetails(price, lot_size, available_cash, prm)
    /\ UNCHANGED <<coreVars, trendVars, coordVars, gauntVars, extVars>>

\* take_trade that goes on to the order whenever the instrument token is known.
AfterSizingTokenOnly(qty, has_token) ==
    IF ~has_token THEN "rejected" ELSE "order"

\* take_trade, lines 1069-1071: "Trade Rejected" and return, or the order block.
AfterSizing(qty, has_token) ==
    IF qty = None \/ ~has_token THEN "rejected" ELSE "order"

\* What an entry order can do: complete, fail, or raise.
EntryOrders == {"COMPLETE", "FAILED", "raises"}

\* take_trade(trigger, opt) as a whole, from a state with the position pos:
\* how it ended, what the sizer returned (when it was called), the entry
\* orders it placed, whether an exception left it, and whether it assigned the
\* position and counted the trade.
\*   has_opt: opt is not None; confirming: _is_atm_confirming(side);
\*   has_token: opt has an instrument_token; order: what the entry order does in
\*   live trading; subscribed: ticker_manager.subscribe returns (it is called
\*   inside the try, after self.position is assigned).
TakeTradeResult(pos, m, has_opt, confirming, has_token, price, lot_size, prm, order, subscribed) ==
    LET sized == CalculateTradeDetails(price, lot_size, None, prm)
        base == [outcome |-> "returned", sized |-> FALSE, qty |-> None,
                 initial_sl_price |-> None, order_calls |-> 0, raised |-> FALSE,
                 assigned |-> FALSE, counted |-> FALSE]
        called == [base EXCEPT !.sized = TRUE, !.qty = sized.qty,
                               !.initial_sl_price = sized.initial_sl_price]
    IN  IF pos.open \/ ~has_opt THEN base
        ELSE IF ~confirming THEN [base EXCEPT !.outcome = "aborted"]
        ELSE IF AfterSizing(sized.qty, has_token) = "rejected"
             THEN [called EXCEPT !.outcome = "rejected"]
        ELSE IF m = "Live" /\ order = "raises"
             THEN [called EXCEPT !.outcome = "entry_fail", !.order_calls = 1]
        ELSE IF m = "Live" /\ order = "FAILED"
             THEN [called EXCEPT !.outcome = "order_failed", !.order_calls = 1]
        ELSE IF ~subscribed
             THEN [called EXCEPT !.outcome = "entry_fail", !.assigned = TRUE,
                                 !.order_calls = IF m = "Live" THEN 1 ELSE 0]
        ELSE [called EXCEPT !.outcome = "opened", !.assigned = TRUE,
                            !.counted = TRUE,
                            !.order_calls = IF m = "Live" THEN 1 ELSE 0]

\* One call of take_trade.
TakeTrade ==
    /\ args = NoArgs
    /\ total_trades < MaxSizerTrades
    /\ \E has_opt \in BOOLEAN, confirming \in BOOLEAN, has_token \in BOOLEAN,
          price \in SizerPrices, lot_size \in SizerLots,
          capital \in SizerCapitals, order \in EntryOrders,
          subscribed \in BOOLEAN :
         LET prm == DefaultSizerParams(capital)
             r == TakeTradeResult(position, mode, has_opt, confirming, has_token,
                                  price, lot_size, prm, order, subscribed)
         IN  /\ args' = [fn |-> "take_trade", has_opt |-> has_opt,
                         confirming |-> confirming, has_token |-> has_token,
                         price |-> price, lot_size |-> lot_size, prm |-> prm,
                         order |-> order, subscribed |-> subscribed]
             /\ returned' = r
             /\ position' = IF r.assigned
                            THEN [open |-> TRUE, qty |-> r.qty, by |-> "h1"]
                            ELSE position
             /\ trades_this_minute' = trades_this_minute + (IF r.counted THEN 1 ELSE 0)
             /\ total_trades' = total_trades + (IF r.counted THEN 1 ELSE 0)
             /\ next_partial_profit_level' =
                    IF r.counted THEN 1 ELSE next_partial_profit_level
    /\ UNCHANGED <<mode, running, posSeq, lockHolder, pc, ret, loc, cooldown>>
    /\ UNCHANGED <<ordVars, exitVars, uiVars, candleVars>>
    /\ UNCHANGED <<trendVars, coordVars, gauntVars, extVars>>

\* exit_position closes the position between two calls of take_trade.
SizerExit ==
    /\ args = NoArgs
    /\ position.open
    /\ position' = NoPos
    /\ UNCHANGED <<ordVars, posRest, exitVars, uiVars, candleVars, auxVars>>

InitSizer ==
    /\ OrderIdle
    /\ \E m \in {"Live", "Paper"} : ResetState(m)
    /\ params = DefaultParams
    /\ UiIdle
    /\ CandlesEmpty
    /\ AuxIdle

NextSizer == CallCalculateTradeDetails \/ TakeTrade \/ SizerExit \/ ResultUsed

SpecSizer == InitSizer /\ [][NextSizer]_vars

\* A call of calculate_trade_details has returned a quantity.
SizerAccepted ==
    /\ args.fn = "calculate_trade_details"
    /\ returned.qty # None

\* The capital the lots are capped by: the live cash when it is passed, the
\* start capital otherwise.
AvailableCapital ==
    IF args.available_cash # None THEN args.available_cash
    ELSE args.prm.start_capital

\* C27: a quantity returned by calculate_trade_details never exceeds
\* floor(available_capital / (price * lot_size)) * lot_size, and is a positive
\* whole multiple of lot_size.
C27_QuantityWithinCapital ==
    SizerAccepted =>
        /\ returned.qty <=
             (AvailableCapital \div (args.price * args.lot_size)) * args.lot_size
        /\ returned.qty > 0
        /\ returned.qty % args.lot_size = 0

\* A sizing accepted with the capital, not the risk, deciding the lots.
C27_Witness ==
    /\ SizerAccepted
    /\ args.available_cash = 6000 /\ args.price = 100 /\ args.lot_size = 25
    /\ args.prm = [start_capital |-> 50000, risk_per_trade_percent |-> 2,
                   trailing_sl_points |-> 5, trailing_sl_percent |-> 10]
    /\ returned.qty = 50

\* The risk a share carries at the call's price, in hundredths.
RiskPerShare ==
    args.price * 100
      - InitialSlPrice(args.price, args.prm.trailing_sl_points,
                       args.prm.trailing_sl_percent)

\* C28: when the capital allows at least one lot and risk-per-share is
\* positive, the sizer returns at least one lot even if lots_by_risk is 0.
C28_OneLotWhenCapitalAllows ==
    ( /\ args.fn = "calculate_trade_details"
      /\ args.price # None /\ args.price >= 1 /\ args.lot_size # None
      /\ AvailableCapital \div (args.price * args.lot_size) >= 1
      /\ RiskPerShare > 0 )
    => (returned.qty # None /\ returned.qty >= args.lot_size)

\* C29: for every accepted sizing the initial stop is
\* min(price - stop_points, price * (1 - stop_pct)) and the quantity is
\* min(floor(risk_amount / (risk_per_share * lot_size)),
\*     floor(capital / (price * lot_size))) * lot_size, with
\* risk_per_share = price - initial_stop; price 100 with 5 points, 10%,
\* capital 50000 and 1% risk gives stop 90 and floor(500 / (10 * lot_size))
\* lots by risk.
C29_StopAndQuantityFormulas ==
    SizerAccepted =>
        LET price == args.price
            lot_size == args.lot_size
            stop == IF (price - args.prm.trailing_sl_points) * 100
                         <= price * (100 - args.prm.trailing_sl_percent)
                    THEN (price - args.prm.trailing_sl_points) * 100
                    ELSE price * (100 - args.prm.trailing_sl_percent)
            risk_amount == args.prm.start_capital * args.prm.risk_per_trade_percent
            lots_by_risk == risk_amount \div ((price * 100 - stop) * lot_size)
            lots_by_capital == AvailableCapital \div (price * lot_size)
        IN  /\ returned.initial_sl_price = stop
            /\ returned.qty = Min(lots_by_risk, lots_by_capital) * lot_size
            /\ (price = 100 /\ args.prm = DefaultSizerParams(50000))
                 => /\ stop = 9000
                    /\ price * 100 - stop = 1000
                    /\ lots_by_risk = 500 \div (10 * lot_size)

\* The example: price 100, lot size 25, the default params, no live cash.
C29_Witness ==
    /\ SizerAccepted
    /\ args.price = 100 /\ args.lot_size = 25 /\ args.available_cash = None
    /\ args.prm = DefaultSizerParams(50000)
    /\ returned = [qty |-> 50, initial_sl_price |-> 9000]

\* C30: when the sizer returns no quantity, take_trade places no broker order,
\* raises no exception, and leaves the position none and the trade counters
\* unchanged.
C30_RejectedSizingIsQuiet ==
    [][ ( /\ args = NoArgs /\ args' # NoArgs
          /\ args'.fn = "take_trade"
          /\ returned'.sized /\ returned'.qty = None )
        => /\ returned'.order_calls = 0
           /\ ~returned'.raised
           /\ position = NoPos /\ position' = NoPos
           /\ trades_this_minute' = trades_this_minute
           /\ total_trades' = total_trades
           /\ next_partial_profit_level' = next_partial_profit_level ]_vars

\* take_trade passed the ATM confirmation with a price and a lot size, and the
\* sizer found the risk too high for one lot.
C30_Witness ==
    /\ args.fn = "take_trade"
    /\ args.confirming /\ args.has_token
    /\ args.price = 100 /\ args.lot_size = 75
    /\ returned.sized /\ returned.qty = None
    /\ returned.outcome = "rejected"
    /\ position = NoPos



--------------------------------------------------------------------------
\* TradeLogger.log_trade (trade_logger.py), called by exit_position and by
\* partial_exit_position from the tick handlers and the background task.

MaxLogCalls == 3

\* self.engines, in the order db_call goes through them.
Sinks == <<"today", "all">>

\* db_lock taken by whoever asks.
LockFreeAlways(lock) == TRUE

\* asyncio.Lock: `async with self.db_lock` goes on when the lock is free.
LockFree(lock) == lock = "none"

\* log_trade is called with a new record: by exit_position ("full") or by
\* partial_exit_position ("partial"). The caller waits for db_lock.
LogTradeCall(t) ==
    /\ tl.pc[t] = "idle"
    /\ tl.calls < MaxLogCalls
    /\ \E k \in {"full", "partial"} :
         tl' = [tl EXCEPT !.pc[t] = "lock", !.rec[t] = tl.calls + 1,
                          !.kind[t] = k, !.calls = @ + 1]
    /\ UNCHANGED <<coreVars, trendVars, fnVars, coordVars, gauntVars, ch, day>>

\* `async with self.db_lock`; asyncio.to_thread starts db_call, which stands
\* before its first engine.
LogAcquire(t) ==
    /\ tl.pc[t] = "lock"
    /\ LockFree(tl.lock)
    /\ tl' = [tl EXCEPT !.lock = t, !.pc[t] = "sink1"]
    /\ UNCHANGED <<coreVars, trendVars, fnVars, coordVars, gauntVars, ch, day>>

\* db_call, one turn of its loop: the INSERT on the engine, which commits or
\* raises; the exception is printed and the loop goes on.
LogWrite(t) ==
    /\ tl.pc[t] \in {"sink1", "sink2"}
    /\ \E ok \in BOOLEAN :
         LET n == IF tl.pc[t] = "sink1" THEN 1 ELSE 2
         IN  tl' = [tl EXCEPT
                 !.writes = Append(@, [rec |-> tl.rec[t], sink |-> Sinks[n],
                                       ok |-> ok]),
                 !.pc[t] = IF n = 1 THEN "sink2" ELSE "join"]
    /\ UNCHANGED <<coreVars, trendVars, fnVars, coordVars, gauntVars, ch, day>>

\* The thread has returned: the await ends, db_lock is released, log_trade
\* returns.
LogRelease(t) ==
    /\ tl.pc[t] = "join"
    /\ tl' = [tl EXCEPT !.lock = IF @ = t THEN "none" ELSE @,
                        !.pc[t] = "idle", !.done = @ \cup {tl.rec[t]},
                        !.rec[t] = 0, !.kind[t] = "none"]
    /\ UNCHANGED <<coreVars, trendVars, fnVars, coordVars, gauntVars, ch, day>>

InitLog ==
    /\ OrderIdle
    /\ ResetState("Paper")
    /\ params = DefaultParams
    /\ UiIdle
    /\ CandlesEmpty
    /\ AuxIdle

NextLog ==
    \E t \in Tasks :
        LogTradeCall(t) \/ LogAcquire(t) \/ LogWrite(t) \/ LogRelease(t)

SpecLog == InitLog /\ [][NextLog]_vars

\* The tasks whose db_call is running in its thread.
Writing == {t \in Tasks : tl.pc[t] \in {"sink1", "sink2"}}

\* The sinks attempted for record r, in the order of the attempts.
AttemptsOf(r) ==
    LET Mine(w) == w.rec = r
        mine == SelectSeq(tl.writes, Mine)
    IN  [i \in 1..Len(mine) |-> mine[i].sink]

--------------------------------------------------------------------------
\* One activation of OrderManager.execute_order_with_chasing followed order by
\* order (order_manager.py 112-304): the quote, limit order, status poll and
\* cancel of each chase attempt, the task fetching the next quote, the market
\* fallback, and the broker filling the orders that are open.  The orders a
\* cleanup places are those of a nested activation (see SpecOrder).

MaxChaseQty == 3
ChaseFreezeLimit == 2

\* The locals at lines 142-146, the tasks, and the broker's side.
\*   next_quote: the task started at line 181 ("none", "running", "done",
\*               "cancelled"); cancel_task: what the cancel call did;
\*   quoted_at: the slice and attempt whose quote limit_price was read from;
\*   cur: the order order_id names, as the broker has it; linger[r]: the
\*        earlier orders still open at the broker with r left to fill;
\*   broker_filled: all the broker filled on the orders of this activation;
\*   placed, limits, markets: orders placed in all, and in this slice;
\*   last: the order placed last, with, as it was when the order was placed,
\*         whether a task of an earlier attempt was still unjoined and whether
\*         an earlier order was open;
\*   counted[s]: how often slice s was added to filled_quantity; sliced[s]:
\*         its order_qty.
NoOrder == [type |-> "none", qty |-> 0, state |-> "none", filled |-> 0]

NewChase(side, total_qty, chase_retries, fallback_to_market, start) ==
    [pc |-> "loop", side |-> side, total_qty |-> total_qty,
     chase_retries |-> chase_retries, fallback_to_market |-> fallback_to_market,
     filled_quantity |-> 0, qty_remaining |-> total_qty, order_qty |-> 0,
     attempt |-> 0, slice_filled |-> FALSE, slice |-> 0,
     limit_price |-> "none", quoted_at |-> <<0, 0>>,
     next_quote |-> "none", cancel_task |-> "none",
     cur |-> NoOrder, linger |-> [r \in 1..ChaseFreezeLimit |-> 0],
     broker_filled |-> 0, start |-> start,
     placed |-> 0, limits |-> 0, markets |-> 0,
     last |-> [type |-> "none", qty |-> 0, price |-> "none", slice |-> 0,
               attempt |-> 0, quoted_at |-> <<0, 0>>, unjoined |-> FALSE,
               live_before |-> FALSE],
     counted |-> <<>>, sliced |-> <<>>,
     status |-> "NONE", reason |-> "NONE", cleanup_qty |-> 0]

\* Line 149, with every slice taking all that remains.
OrderQtyUnsliced(qty_remaining, freeze_limit) == qty_remaining

\* Line 149: order_qty = min(qty_remaining, freeze_limit)
OrderQty(qty_remaining, freeze_limit) == Min(qty_remaining, freeze_limit)

\* Lines 168-171: the touch the limit price is read from.
TouchOf(side) == IF side = "BUY" THEN "ask" ELSE "bid"

\* The fallback placed whenever the slice is not filled.
WantsMarketAlways(slice_filled, fallback_to_market) == ~slice_filled

\* Line 237: if not slice_filled and fallback_to_market
WantsMarket(slice_filled, fallback_to_market) ==
    ~slice_filled /\ fallback_to_market

ChaseAt(pcs) == ch.pc \in pcs

\* Where the exception of a call site goes: the quote's own try breaks out of
\* the chase loop; everything else is caught by the try around the slice.
ChaseCatch(site) == IF site = "quote" THEN "fallback" ELSE "except"

\* An earlier order is open at the broker.
AnyOpen == ch.cur.state = "open" \/ \E r \in DOMAIN ch.linger : ch.linger[r] > 0

\* kite.place_order returns a new order id: the order is open at the broker;
\* the order named by order_id until now, if still open, stays open there.
Placed(type, price) ==
    [ch EXCEPT
       !.linger = IF ch.cur.state = "open"
                  THEN [@ EXCEPT ![ch.cur.qty - ch.cur.filled] = @ + 1]
                  ELSE @,
       !.cur = [type |-> type, qty |-> ch.order_qty, state |-> "open",
                filled |-> 0],
       !.placed = @ + 1,
       !.limits = @ + (IF type = "LIMIT" THEN 1 ELSE 0),
       !.markets = @ + (IF type = "MARKET" THEN 1 ELSE 0),
       !.last = [type |-> type, qty |-> ch.order_qty, price |-> price,
                 slice |-> ch.slice, attempt |-> ch.attempt,
                 quoted_at |-> ch.quoted_at,
                 unjoined |-> ch.cancel_task # "none"
                                \/ (type = "MARKET" /\ ch.next_quote = "running"),
                 live_before |-> AnyOpen]]

\* while qty_remaining > 0 (lines 148-150).
ChaseSliceStart ==
    /\ ChaseAt({"loop"})
    /\ ch' = IF ch.qty_remaining > 0
             THEN LET q == OrderQty(ch.qty_remaining, ChaseFreezeLimit)
                  IN  [ch EXCEPT !.order_qty = q,
                             !.slice_filled = FALSE, !.attempt = 0,
                             !.slice = @ + 1, !.counted = Append(@, 0),
                             !.sliced = Append(@, q),
                             !.limits = 0, !.markets = 0,
                             !.next_quote = "none",
                             !.pc = "quote"]
             ELSE [ch EXCEPT !.pc = "verify"]
    /\ UNCHANGED <<coreVars, trendVars, fnVars, coordVars, gauntVars, tl, day>>

\* Lines 155-178: the quote of this attempt is fetched and awaited, and the
\* limit price read from it; a failure breaks out of the chase loop.  Lines
\* 180-182: the task for the next quote is started when an attempt can follow.
ChaseQuote ==
    /\ ChaseAt({"quote"})
    /\ \E ok \in BOOLEAN :
         ch' = IF ok
               THEN [ch EXCEPT !.limit_price = TouchOf(ch.side),
                               !.quoted_at = <<ch.slice, ch.attempt>>,
                               !.next_quote = IF ch.attempt < ch.chase_retries
                                              THEN "running" ELSE "none",
                               !.pc = "place"]
               ELSE [ch EXCEPT !.pc = ChaseCatch("quote")]
    /\ UNCHANGED <<coreVars, trendVars, fnVars, coordVars, gauntVars, tl, day>>

\* The task of line 182 finishes (its result is never read).
ChaseNextQuoteDone ==
    /\ ch.pc # "none" /\ ch.next_quote = "running"
    /\ ch' = [ch EXCEPT !.next_quote = "done"]
    /\ UNCHANGED <<coreVars, trendVars, fnVars, coordVars, gauntVars, tl, day>>

\* Lines 185-197: the limit order is placed at limit_price.
ChasePlaceLimit ==
    /\ ChaseAt({"place"})
    /\ \E ok \in BOOLEAN :
         ch' = IF ok
               THEN [Placed("LIMIT", ch.limit_price) EXCEPT !.pc = "status"]
               ELSE [ch EXCEPT !.pc = ChaseCatch("place")]
    /\ UNCHANGED <<coreVars, trendVars, fnVars, coordVars, gauntVars, tl, day>>

\* The broker fills an open order, in part or in full: the order order_id
\* names, or an earlier one that is still open.
BrokerFill ==
    /\ ch.pc \notin {"none", "done"}
    /\ \/ /\ ch.cur.state = "open"
          /\ \E f \in 1..(ch.cur.qty - ch.cur.filled) :
               ch' = [ch EXCEPT !.cur.filled = @ + f,
                                !.cur.state = IF ch.cur.filled + f = ch.cur.qty
                                              THEN "complete" ELSE "open",
                                !.broker_filled = @ + f]
       \/ \E r \in DOMAIN ch.linger :
            /\ ch.linger[r] > 0
            /\ \E f \in 1..r :
                 ch' = [ch EXCEPT
                          !.linger = [x \in DOMAIN ch.linger |->
                                        ch.linger[x] - (IF x = r THEN 1 ELSE 0)
                                                     + (IF x = r - f THEN 1 ELSE 0)],
                          !.broker_filled = @ + f]
    /\ UNCHANGED <<coreVars, trendVars, fnVars, coordVars, gauntVars, tl, day>>

\* Lines 200-221: after the timeout the order's history is fetched.  COMPLETE:
\* the next-quote task is cancelled, the slice is counted as filled, break.
\* Anything else goes on to the cancel.  A failing poll raises.
ChaseLimitStatus ==
    /\ ChaseAt({"status"})
    /\ \E ok \in BOOLEAN :
         ch' = IF ~ok
               THEN [ch EXCEPT !.pc = ChaseCatch("status")]
               ELSE IF ch.cur.state = "complete"
               THEN [ch EXCEPT !.next_quote = IF @ = "none" THEN @ ELSE "cancelled",
                               !.filled_quantity = @ + ch.order_qty,
                               !.counted[ch.slice] = @ + 1,
                               !.slice_filled = TRUE,
                               !.pc = "fallback"]
               ELSE [ch EXCEPT !.pc = "cancel"]
    /\ UNCHANGED <<coreVars, trendVars, fnVars, coordVars, gauntVars, tl, day>>

\* Lines 226-230: the cancel task runs kite.cancel_order: the open order is
\* cancelled, or the call raises (and an order that was open stays open).
ChaseCancel ==
    /\ ChaseAt({"cancel"})
    /\ \E ok \in BOOLEAN :
         ch' = IF ok /\ ch.cur.state = "open"
               THEN [ch EXCEPT !.cur.state = "cancelled",
                               !.cancel_task = "done", !.pc = "join"]
               ELSE [ch EXCEPT !.cancel_task = "failed", !.pc = "join"]
    /\ UNCHANGED <<coreVars, trendVars, fnVars, coordVars, gauntVars, tl, day>>

\* Lines 232-236: with a next-quote task, gather(cancel_task, next_quote_task,
\* return_exceptions=True) drops what the two raised; without one,
\* "await cancel_task" raises what the cancel raised.
JoinRaises(next_quote, cancel_task) ==
    next_quote = "none" /\ cancel_task = "failed"

\* Lines 232-236: both tasks are waited for; then the next attempt, or the end
\* of the chase loop.
ChaseJoin ==
    /\ ChaseAt({"join"})
    /\ ch.next_quote \in {"none", "done"}
    /\ ch' = IF JoinRaises(ch.next_quote, ch.cancel_task)
             THEN [ch EXCEPT !.cancel_task = "none", !.pc = ChaseCatch("cancel")]
             ELSE [ch EXCEPT !.cancel_task = "none", !.next_quote = "none",
                             !.attempt = @ + 1,
                             !.pc = IF ch.attempt + 1 <= ch.chase_retries
                                    THEN "quote" ELSE "fallback"]
    /\ UNCHANGED <<coreVars, trendVars, fnVars, coordVars, gauntVars, tl, day>>

\* Lines 237-253: the market fallback is placed, or skipped.
ChaseMarketFallback ==
    /\ ChaseAt({"fallback"})
    /\ IF WantsMarket(ch.slice_filled, ch.fallback_to_market)
       THEN \E ok \in BOOLEAN :
              ch' = IF ok
                    THEN [Placed("MARKET", "market") EXCEPT !.pc = "market_status"]
                    ELSE [ch EXCEPT !.pc = ChaseCatch("market")]
       ELSE ch' = [ch EXCEPT !.pc = "check"]
    /\ UNCHANGED <<coreVars, trendVars, fnVars, coordVars, gauntVars, tl, day>>

\* Lines 254-264: after 0.2 s the market order's history is fetched; COMPLETE
\* adds its filled_quantity and marks the slice filled.
ChaseMarketStatus ==
    /\ ChaseAt({"market_status"})
    /\ \E ok \in BOOLEAN :
         ch' = IF ~ok THEN [ch EXCEPT !.pc = ChaseCatch("market_status")]
               ELSE IF ch.cur.state = "complete"
               THEN [ch EXCEPT !.filled_quantity = @ + ch.cur.filled,
                               !.counted[ch.slice] = @ + 1,
                               !.slice_filled = TRUE, !.pc = "check"]
               ELSE [ch EXCEPT !.pc = "check"]
    /\ UNCHANGED <<coreVars, trendVars, fnVars, coordVars, gauntVars, tl, day>>

\* Lines 266-271: an unfilled slice raises "Failed to fill order slice";
\* a filled one is taken off qty_remaining.
ChaseSliceEnd ==
    /\ ChaseAt({"check"})
    /\ ch' = IF ~ch.slice_filled
             THEN [ch EXCEPT !.pc = ChaseCatch("nofill")]
             ELSE [ch EXCEPT !.qty_remaining = @ - ch.order_qty, !.pc = "loop"]
    /\ UNCHANGED <<coreVars, trendVars, fnVars, coordVars, gauntVars, tl, day>>

\* Lines 273-276: except Exception: _cleanup_partial_fill(filled_quantity),
\* return FAILED.
ChaseExcept ==
    /\ ChaseAt({"except"})
    /\ ch' = [ch EXCEPT !.status = "FAILED", !.reason = "API_ERROR",
                        !.cleanup_qty = ch.filled_quantity, !.pc = "done"]
    /\ UNCHANGED <<coreVars, trendVars, fnVars, coordVars, gauntVars, tl, day>>

\* Lines 279-309: kite.positions() and the comparison with total_qty.
ChaseVerify ==
    /\ ChaseAt({"verify"})
    /\ \E ok \in BOOLEAN :
         LET net == ch.start + Sign(ch.side) * ch.broker_filled
             final_filled_qty == Abs(net)
         IN  ch' = IF ~ok
                   THEN [ch EXCEPT !.status = "FAILED", !.reason = "VERIFICATION_ERROR",
                                   !.cleanup_qty = ch.filled_quantity, !.pc = "done"]
                   ELSE IF final_filled_qty = ch.total_qty \/ ch.side = "SELL"
                   THEN [ch EXCEPT !.status = "COMPLETE", !.reason = "SUCCESS",
                                   !.pc = "done"]
                   ELSE [ch EXCEPT !.status = "FAILED", !.reason = "VERIFICATION_FAILED",
                                   !.cleanup_qty = final_filled_qty, !.pc = "done"]
    /\ UNCHANGED <<coreVars, trendVars, fnVars, coordVars, gauntVars, tl, day>>

\* The calls made: by take_trade (BUY from flat), by exit_position and
\* partial_exit_position (SELL of a held quantity), with the default
\* chase_retries, and by _cleanup_partial_fill with chase_retries = 0.
InitChase ==
    /\ OrderIdle
    /\ ResetState("Live")
    /\ params = DefaultParams
    /\ UiIdle
    /\ CandlesEmpty
    /\ TrendIdle /\ FnIdle /\ coord = CoordIdle /\ gt = GauntletIdle
    /\ tl = LoggerIdle /\ day = DayIdle
    /\ \E side \in {"BUY", "SELL"}, qty \in 1..MaxChaseQty,
          retries \in {ChaseRetries, CleanupChaseRetries},
          fallback_to_market \in BOOLEAN :
         \E start \in (IF side = "BUY" THEN {0} ELSE {qty}) :
            ch = NewChase(side, qty, retries, fallback_to_market, start)

NextChase ==
    \/ ChaseSliceStart \/ ChaseQuote \/ ChaseNextQuoteDone \/ ChasePlaceLimit
    \/ BrokerFill \/ ChaseLimitStatus \/ ChaseCancel \/ ChaseJoin
    \/ ChaseMarketFallback \/ ChaseMarketStatus \/ ChaseSliceEnd
    \/ ChaseExcept \/ ChaseVerify

SpecChase == InitChase /\ [][NextChase]_vars

\* An order was placed in this step.
PlacesOrder == ch'.placed = ch.placed + 1

\* C32: a quote fetch or an order-status fetch that fails during a chase
\* attempt is retried within the chase attempts the slice has left: the call
\* goes on to the market fallback or to FAILED on such a failure only when no
\* attempt is left (attempt = chase_retries), never on an earlier one.
C32_FetchFailureRetried ==
    [][((ch.pc = "quote" /\ ch'.pc = "fallback")
          \/ (ch.pc = "status" /\ ch'.pc = "except"))
         => ch.attempt >= ch.chase_retries]_vars

\* The limit orders of a slice are at most chase_retries + 1, each at the touch
\* price of a quote fetched in its own attempt; at most one market order; a
\* call that ended with a slice counted as filled by no order is FAILED.
SliceOrdersBounded ==
    ch.pc # "none" =>
      /\ ch.limits <= ch.chase_retries + 1
      /\ ch.markets <= 1
      /\ ch.last.type = "LIMIT" =>
           /\ ch.last.price = TouchOf(ch.side)
           /\ ch.last.quoted_at = <<ch.last.slice, ch.last.attempt>>
      /\ (ch.pc = "done" /\ \E s \in DOMAIN ch.counted : ch.counted[s] = 0)
           => ch.status = "FAILED"

\* A limit order is placed before any market order of its slice; a market order
\* is placed only when no limit order of the slice was reported COMPLETE and
\* fallback_to_market is set.
MarketOnlyAsFallback ==
    PlacesOrder =>
      /\ ch.markets = 0
      /\ ch'.last.type = "MARKET" =>
           /\ ch.fallback_to_market
           /\ ~ch.slice_filled
           /\ ch.counted[ch.slice] = 0

\* C33: per slice at most chase_retries + 1 limit orders, each at a freshly
\* fetched touch price (best ask for BUY, best bid for SELL), then at most one
\* market order, placed only if no limit order of the slice was reported
\* COMPLETE and fallback_to_market is set; a slice filled by neither makes the
\* whole call FAILED.
C33_ChaseThenOneMarket == []SliceOrdersBounded /\ [][MarketOnlyAsFallback]_vars

\* All chase_retries + 1 = 4 limit orders of a slice and its market order were
\* placed, none was reported COMPLETE, and the call returned FAILED.
C33_Witness ==
    /\ ch.pc = "done" /\ ch.status = "FAILED"
    /\ ch.chase_retries = ChaseRetries
    /\ ch.limits = ChaseRetries + 1 /\ ch.markets = 1
    /\ ch.counted[ch.slice] = 0

\* C34: when an order is placed, the cancel and the quote refresh of the
\* attempts before it have been waited for, and no earlier order of the call is
\* still open at the broker (a cancel that failed was not passed over).
C34_CancelJoinedBeforeNextOrder ==
    (ch.pc # "none" /\ ch.last.type # "none") =>
       (~ch.last.unjoined /\ ~ch.last.live_before)

RECURSIVE SumSeq(_)
SumSeq(q) == IF q = <<>> THEN 0 ELSE Head(q) + SumSeq(Tail(q))

\* C35: every order placed has a quantity between 1 and freeze_limit, and when
\* the call returns COMPLETE the slice quantities sum to exactly total_qty,
\* each slice having been counted as filled exactly once.
C35_SlicesWithinFreezeLimit ==
    ch.pc # "none" =>
      /\ ch.last.type # "none" => ch.last.qty \in 1..ChaseFreezeLimit
      /\ ch.status = "COMPLETE" =>
           /\ SumSeq(ch.sliced) = ch.total_qty
           /\ \A s \in DOMAIN ch.counted : ch.counted[s] = 1

\* A call for more than freeze_limit returned COMPLETE after two slices; the
\* order placed last was the market fallback of the second.
C35_Witness ==
    /\ ch.pc = "done" /\ ch.status = "COMPLETE"
    /\ ch.total_qty > ChaseFreezeLimit
    /\ Len(ch.sliced) = 2
    /\ ch.last.type = "MARKET" /\ ch.placed >= 3

\* C39: the quantity the broker has filled on the orders of one call never
\* exceeds total_qty.
C39_BrokerFillWithinTotal ==
    ch.pc # "none" => ch.broker_filled <= ch.total_qty

--------------------------------------------------------------------------
\* A claim about concurrent exits, checked under SpecPos.

\* The tasks inside exit_position that have booked the P&L of the position
\* and had its closing record written to at least one sink, and have not yet
\* cleared self.position (between lines 1156 and 1159).
ClosingTasks == {t \in Tasks : pc[t] = "x_clear" /\ loc[t].logged > 0}

\* C38: a position is closed at most once: one full-close order sequence, one
\* closing TradeRecord, one update of the daily P&L totals and the win / loss
\* counters, under every interleaving of the tick-driven exit, the final
\* partial exit, the failsafe / end-of-day exit, the manual exit and stop_bot.
\* self.position is cleared only at the end of exit_position, so two tasks
\* past the booking and the record at once have both closed the same position.
C38_PositionClosedOnce == Cardinality(ClosingTasks) <= 1

--------------------------------------------------------------------------
\* The day's totals and the entry gates: handle_ticks_async's entry path,
\* partial_exit_position and exit_position, each taken as one step (their
\* interleavings are those of SpecPos).  Prices and amounts are in paise.

\* Entries in one run of the model.
MaxDayTrades == 3
\* self.params.get("max_trades_per_minute", 2), line 984.
MaxTradesPerMinute == 2
\* The price the model's positions are entered at, and the prices they are
\* left at.
DayEntryPrices == {10000}
DayPrices == {8000, 14000}
\* daily_sl and daily_pt: 0 (off), or a loss of 50 and a profit of 100 rupees.
DaySlChoices == {0, -5000}
DayPtChoices == {0, 10000}

\* _calculate_trade_charges (lines 401-410) for NFO, every term rounded down
\* to a paisa.
CalculateTradeCharges(entry_price, exit_price, quantity) ==
    LET buy_value == entry_price * quantity
        sell_value == exit_price * quantity
        total_turnover == buy_value + sell_value
        brokerage == 2000 * 2
        stt == sell_value \div 1000
        exchange_charges == (total_turnover * 53) \div 100000
        sebi_charges == total_turnover \div 1000000
        gst == ((brokerage + exchange_charges + sebi_charges) * 18) \div 100
        stamp_duty == (buy_value * 3) \div 100000
    IN  brokerage + stt + exchange_charges + gst + sebi_charges + stamp_duty

\* is_trade_allowed, line 992: the daily stop-loss or profit target is reached.
DailyLimitReached(d) ==
    \/ (d.daily_sl < 0 /\ d.daily_net_pnl <= d.daily_sl)
    \/ (d.daily_pt > 0 /\ d.daily_net_pnl >= d.daily_pt)

\* is_trade_allowed, lines 970-996, for a strategy without a position and with
\* trades_this_minute = tpm: the gates that refuse a trade (the exit cooldown
\* and the 20 candles of data apart).
EntryGateClosed(d, tpm) ==
    \/ d.daily_trade_limit_hit
    \/ d.is_paused
    \/ tpm >= MaxTradesPerMinute
    \/ DailyLimitReached(d)

\* handle_ticks_async on an index tick (lines 1391-1403) with take_trade: a
\* new minute resets trades_this_minute; with no position the coordinator
\* runs, and on a signal it validates take_trade opens a position of `lots`
\* lots and counts it (lines 1096-1107).  Nothing on this path reads
\* is_paused, daily_trade_limit_hit, daily_net_pnl or trades_this_minute.
DayIndexTick ==
    \E is_new_minute \in BOOLEAN, signal \in BOOLEAN, lots \in 1..MaxLots,
       price \in DayEntryPrices :
       LET tpm == IF is_new_minute THEN 0 ELSE day.trades_this_minute
       IN  /\ day' = IF ~day.open /\ signal /\ day.entries < MaxDayTrades
                     THEN [day EXCEPT !.open = TRUE, !.qty = lots * LotSize,
                                      !.entry_price = price,
                                      !.trades_this_minute = tpm + 1,
                                      !.next_partial_profit_level = 1,
                                      !.entries = @ + 1,
                                      !.last = [op |-> "entry", order |-> "NONE"]]
                     ELSE [day EXCEPT !.trades_this_minute = tpm,
                                      !.last = [op |-> "tick", order |-> "NONE"]]
           /\ UNCHANGED <<coreVars, trendVars, fnVars, coordVars, gauntVars, tl, ch>>

\* exit_position (lines 1115-1163) on the day d, leaving at exit_price; `order`
\* is what the exit order did in live trading.  An exception of the order
\* call leaves everything as it is; otherwise the totals and the win / loss
\* counters are updated, the record is logged and the position is cleared.
ExitPosition(d, m, exit_price, order, op) ==
    LET gross_pnl == (exit_price - d.entry_price) * d.qty
        charges == CalculateTradeCharges(d.entry_price, exit_price, d.qty)
        net_pnl == gross_pnl - charges
    IN  IF m = "Live" /\ ExitAfterOrder(order) = "return"
        THEN [d EXCEPT !.last = [op |-> op, order |-> order]]
        ELSE [d EXCEPT !.daily_gross_pnl = @ + gross_pnl,
                       !.total_charges = @ + charges,
                       !.daily_net_pnl = @ + net_pnl,
                       !.winning_trades = @ + (IF gross_pnl > 0 THEN 1 ELSE 0),
                       !.losing_trades = @ + (IF gross_pnl > 0 THEN 0 ELSE 1),
                       !.records = @ + 1,
                       !.open = FALSE, !.qty = 0, !.entry_price = 0,
                       !.last = [op |-> op,
                                 order |-> IF m = "Live" THEN order ELSE "NONE"]]

\* A partial exit that goes on whatever its order returned.
PartialAfterOrderAlways(order) == "apply"

\* partial_exit_position, lines 1331-1333 and 1346: anything but COMPLETE
\* returns (an exception through the except of line 1346).
PartialAfterOrder(order) == IF order = "COMPLETE" THEN "apply" ELSE "return"

\* partial_exit_position (lines 1302-1347) as a whole, called by
\* check_partial_profit_take at a price above the entry price: the full close
\* when less than a lot would remain; else the partial order in live trading,
\* and after it the totals, the record, the quantity and the level.
DayPartialExit ==
    /\ day.open
    /\ \E exit_price \in {x \in DayPrices : x > day.entry_price},
          order \in OrderOutcomes :
         LET qty_to_exit == QtyToExit(day.qty)
             gross_pnl == (exit_price - day.entry_price) * qty_to_exit
             charges == CalculateTradeCharges(day.entry_price, exit_price, qty_to_exit)
             net_pnl == gross_pnl - charges
         IN  day' = IF FinalExit(day.qty)
                    THEN ExitPosition(day, mode, exit_price, order, "final")
                    ELSE IF mode = "Live" /\ PartialAfterOrder(order) = "return"
                    THEN [day EXCEPT !.last = [op |-> "partial", order |-> order]]
                    ELSE [day EXCEPT !.daily_gross_pnl = @ + gross_pnl,
                                     !.total_charges = @ + charges,
                                     !.daily_net_pnl = @ + net_pnl,
                                     !.records = @ + 1,
                                     !.qty = @ - qty_to_exit,
                                     !.next_partial_profit_level = @ + 1,
                                     !.last = [op |-> "partial",
                                               order |-> IF mode = "Live"
                                                         THEN order ELSE "NONE"]]
    /\ UNCHANGED <<coreVars, trendVars, fnVars, coordVars, gauntVars, tl, ch>>

\* exit_position called by evaluate_exit_logic, periodic_ui_updater, the
\* manual exit or stop_bot.
DayExit ==
    /\ day.open
    /\ \E exit_price \in DayPrices, order \in OrderOutcomes :
         day' = ExitPosition(day, mode, exit_price, order, "exit")
    /\ UNCHANGED <<coreVars, trendVars, fnVars, coordVars, gauntVars, tl, ch>>

InitDay ==
    /\ OrderIdle
    /\ \E m \in {"Live", "Paper"} : ResetState(m)
    /\ params = DefaultParams
    /\ UiIdle
    /\ CandlesEmpty
    /\ TrendIdle /\ FnIdle /\ coord = CoordIdle /\ gt = GauntletIdle
    /\ tl = LoggerIdle /\ ch = ChaseIdle
    /\ \E daily_sl \in DaySlChoices, daily_pt \in DayPtChoices :
         day = NewDay(daily_sl, daily_pt)

NextDay == DayIndexTick \/ DayPartialExit \/ DayExit

SpecDay == InitDay /\ [][NextDay]_vars

\* C37: no position is entered from the tick-driven entry path while an entry
\* gate of is_trade_allowed is closed: the bot paused, the daily net P&L at or
\* beyond the daily stop-loss or profit target (or daily_trade_limit_hit set),
\* or trades_this_minute at the per-minute maximum when the trade is taken.
C37_NoEntryWhileGateClosed ==
    [][(~day.open /\ day'.open)
         => ~EntryGateClosed(day, day'.trades_this_minute - 1)]_vars

\* C40: a partial exit whose order does not return COMPLETE in live trading
\* leaves the position's quantity, next_partial_profit_level, the daily gross
\* and net P&L and the charges as they were, and writes no TradeRecord.
C40_FailedPartialExitChangesNothing ==
    [][(mode = "Live" /\ day'.last.op = "partial" /\ day'.last.order # "COMPLETE")
         => /\ day'.open = day.open /\ day'.qty = day.qty
            /\ day'.next_partial_profit_level = day.next_partial_profit_level
            /\ day'.daily_gross_pnl = day.daily_gross_pnl
            /\ day'.daily_net_pnl = day.daily_net_pnl
            /\ day'.total_charges = day.total_charges
            /\ day'.records = day.records]_vars

\* In live trading a position of two lots after a partial exit whose order
\* failed: no record, no P&L, both lots held, the level still 1.
C40_Witness ==
    /\ mode = "Live" /\ day.open
    /\ day.last = [op |-> "partial", order |-> "FAILED"]
    /\ day.qty = 2 * LotSize /\ day.next_partial_profit_level = 1
    /\ day.records = 0 /\ day.daily_net_pnl = 0 /\ day.total_charges = 0

====
